---- MODULE Spec2Model ----
(***************************************************************************)
(* raBoard: file-based message board on a shared folder.                   *)
(*                                                                         *)
(* Spec      : runCompactLogs (withFileLock around processSpool) run by    *)
(*             several processes on one room, with process kills.          *)
(* SpoolSpec : postMessage / writeJsonAtomic by several writers and the    *)
(*             polling reader (loadIncremental, listSince, readMessage).   *)
(*                                                                         *)
(* File names are sequences of naturals compared lexicographically, a      *)
(* proper prefix sorting first: <<t, id>> is "<timestamp>_<id>.json" and   *)
(* <<t, id, r>> is its temporary name "<timestamp>_<id>.json.<r>.tmp".     *)
(* The timestamp and the hex token are fixed-width fields, so the order of *)
(* the numbers is the order of the strings.                                *)
(***************************************************************************)
EXTENDS Integers, Sequences, FiniteSets, TLC

\* ---------------------------------------------------------------- bounds
MaxTime == 1
MaxCrashes == 1
MaxIoFailures == 1
MaxPosts == 2
\* Number of postMessage calls while two loadIncremental calls overlap.
MaxPollPosts == 1
\* Number of heartbeat calls.
MaxHeartbeats == 1
\* Length, in hours, of the window of instants of the scope model.
MaxHours == 240
\* Number of trySetActiveRoom calls that pass the readiness check.
MaxSwitches == 3
\* currentConfig.initialLoadLimit
initialLoadLimit == 2
MaxInFlight == 2

\* ------------------------------------------------------------- constants
\* Lock clock: one unit of `now` is LOCK_TTL_MS (15 minutes).
LOCK_TTL == 1
\* Record timestamps are counted in hours.
JST_OFFSET == 9
DAY == 24

\* The invocations of the "Compact Logs" command, each in its own process.
Procs == {1, 2}

\* The spool file names of the compaction model, <<ts, id>>.
SpoolNames == {<<10, 1>>, <<20, 2>>}
\* The processes that post, their clock readings and random ids.
Writers == {1, 2}
Times == {1, 2}
Ids == {1, 2}
\* The loadIncremental calls that can be in flight at once: one where the
\* timer is slower than a call, two where a tick or a forced poll finds a
\* call unfinished.
Slots == {1}
Calls == {1, 2}
\* A subdirectory inside msgs.
SubDir == <<9>>

VARIABLES
    now,        \* Date.now() of the lock clock
    lock,       \* the lock file logs/.lock
    spool,      \* rooms/<room>/msgs : name -> payload
    logs,       \* rooms/<room>/logs : day key -> sequence of lines
    pc,         \* position of each process in runCompactLogs
    meta,       \* metadata.expiresAt computed at the start of the call
    existing,   \* result of readLockMetadata
    cutoff,     \* scope.cutoffMs of the run
    files,      \* processSpool: sorted names listed
    idx,        \* processSpool: position in files
    cur,        \* processSpool: payload and dayKey of the file in hand
    summary,    \* processSpool: considered / appended / skipped
    outcome,    \* how the last finished call ended
    ioFailed,   \* the run in progress met an injected I/O failure
    ioFailures, \* number of injected I/O failures
    crashes,    \* number of processes killed
    initial,    \* the spool as it was before any run
    crashedMid, \* names whose run was killed between append and delete
    wpc,        \* position of each writer in postMessage / writeJsonAtomic
    wname,      \* postMessage: fileName
    wrec,       \* postMessage: message
    wclock,     \* the last reading of each writer's own clock
    posts,      \* number of postMessage calls started
    posted,     \* the messages returned by postMessage
    cursor,     \* lastSeenMessageNames.get(room), <<>> when absent
    cursorChain,\* names returned by the listSince calls that led to cursor
    rpc,        \* position of each loadIncremental call in flight
    since,      \* loadIncremental: lastSeen ?? ''
    chain,      \* cursorChain as it was when since was read
    newer,      \* loadIncremental: files returned by listSince
    sidx,       \* deliverMessages: position in files
    msgs,       \* deliverMessages: messages
    delivered,  \* the messages handed to the view in reset / append events
    partialReads, \* names whose content was read before it was complete
    skippedNames, \* names deliverMessages could not read or parse
    activeRoom, \* 0: undefined, 1: the room of spool, 2: another room
    polling,    \* pollTimer is set
    ipc,        \* position of trySetActiveRoom / loadInitialTimeline
    recent,     \* loadInitialTimeline: names returned by listTail
    ridx,       \* deliverMessages of the initial load: position in files
    rmsgs,      \* deliverMessages of the initial load: messages
    switches,   \* number of room switches so far
    lastEvent,  \* the last resetTimeline / appendTimeline call on the view
    clock,      \* resolveScope: new Date(), in hours since the epoch
    preset,     \* the PresetChoice picked, "none" before the pick
    dateInput,  \* the text typed into the input box, <<year, month, day>>
    scope,      \* what resolveScope returned
    presence,   \* <shareRoot>/presence: how readdir / writeFile fail, entries
    presenceOp, \* the last heartbeat / scanPresence call: inputs and outcome
    heartbeats, \* number of heartbeat calls so far
    postCall,   \* the last postMessage call followed with its arguments
    tailCall,   \* the last listTail call followed with its arguments
    switchCall, \* the last trySetActiveRoom call that met a room not ready
    roomDirs,   \* the rooms whose folders exist under <shareRoot>/rooms
    presenceAvailable, \* presenceAvailable of the extension
    presenceTimers,    \* heartbeatTimer and presenceScanTimer are set
    beatRun,    \* runHeartbeatOnce calls awaiting writePresenceHeartbeat
    scanRun,    \* runPresenceScanOnce calls awaiting scanPresence
    lastPresenceUsers, \* lastPresenceUsers of the extension
    viewUsers,  \* the users of the last 'presence' message to the view
    unreadCounts,   \* NotificationMonitor.unreadCounts, 0 for no entry
    latestObserved, \* NotificationMonitor.latestObserved, <<>> for no entry
    noteTimer,  \* NotificationMonitor.timer is set
    disposed,   \* NotificationMonitor.disposed
    scanPromise,\* NotificationMonitor.scanPromise is set
    npc,        \* position of each doScan pass
    nbase,      \* scanRoom: baseline of each doScan pass
    scanRequest \* what the last call of scan() did

lockVars == <<now, lock, pc, meta, existing, outcome, crashes>>
compactVars == <<spool, logs, cutoff, files, idx, cur, summary, ioFailed, ioFailures,
                 initial, crashedMid>>
writerVars == <<wpc, wname, wrec, wclock, posts, posted>>
loadVars == <<activeRoom, polling, ipc, recent, ridx, rmsgs, switches>>
readerVars == <<cursor, cursorChain, rpc, since, chain, newer, sidx, msgs, delivered,
                partialReads, skippedNames, loadVars, lastEvent>>
scopeVars == <<clock, preset, dateInput, scope>>
\* What no step of withFileLock and processSpool touches.
presenceVars == <<presence, presenceOp, heartbeats>>
postVars == <<postCall>>
availVars == <<presenceAvailable, presenceTimers, beatRun, scanRun, lastPresenceUsers,
               viewUsers>>
noteVars == <<unreadCounts, latestObserved, noteTimer, disposed, scanPromise, npc, nbase,
              scanRequest>>
callVars == <<tailCall, switchCall, roomDirs, availVars, noteVars>>
spoolVars == <<writerVars, readerVars, scopeVars, presenceVars, postVars, callVars>>
vars == <<lockVars, compactVars, spoolVars>>

\* ------------------------------------------------------------ file names
\* a < b for strings: the first differing position decides, a proper prefix
\* is smaller.
RECURSIVE NameLess(_, _)
NameLess(a, b) ==
    IF Len(b) = 0 THEN FALSE
    ELSE IF Len(a) = 0 THEN TRUE
    ELSE IF Head(a) < Head(b) THEN TRUE
    ELSE IF Head(a) > Head(b) THEN FALSE
    ELSE NameLess(Tail(a), Tail(b))

\* Array.prototype.sort with the comparator (a < b ? -1 : a > b ? 1 : 0),
\* as an insertion sort.
RECURSIVE InsertSorted(_, _)
InsertSorted(n, s) ==
    IF Len(s) = 0 THEN <<n>>
    ELSE IF NameLess(n, Head(s)) THEN <<n>> \o s
    ELSE <<Head(s)>> \o InsertSorted(n, Tail(s))

RECURSIVE SortNames(_)
SortNames(S) ==
    IF S = {} THEN <<>>
    ELSE LET n == CHOOSE x \in S : TRUE
         IN InsertSorted(n, SortNames(S \ {n}))

\* entries.filter(isFile).map(name).sort(...) over a directory name -> content
toSortedFileNames(dir) == SortNames({n \in DOMAIN dir : dir[n].kind # "dir"})

Range(s) == {s[i] : i \in 1..Len(s)}

Ascending(names) ==
    \A i \in 1..Len(names) - 1 : NameLess(names[i], names[i + 1])


\* ------------------------------------------------------------- lock file
NoLock == [present |-> FALSE, owner |-> 0, written |-> FALSE, expiresAt |-> 0,
           detail |-> 0]
NoMeta == [ok |-> FALSE, expiresAt |-> 0, detail |-> 0]
\* options.detail of a call: the text the caller passes, one per caller.
DetailOf(p) == p
NoPayload == [kind |-> "none", ts |-> 0, id |-> 0, from |-> 0, text |-> 0]
DirEntry == [NoPayload EXCEPT !.kind = "dir"]
NoCur == [payload |-> NoPayload, day |-> 0]
NoSummary == [considered |-> 0, appended |-> 0, skipped |-> 0, days |-> {}]

\* readLockMetadata: undefined when the file is missing, or when its body is
\* not (yet) the JSON metadata; otherwise the metadata.
readLockMetadata(l) ==
    IF l.present /\ l.written
    THEN [ok |-> TRUE, expiresAt |-> l.expiresAt, detail |-> l.detail]
    ELSE NoMeta

\* Variant of isExpired: the comparison is < instead of <=.
isExpiredStrictly(m, t) == m.expiresAt < t

\* Date.parse(metadata.expiresAt) is finite for every expiresAt written by
\* writeLockFile (an ISO string), so what decides is expiresAt <= now.
isExpired(m, t) == m.expiresAt <= t

\* -------------------------------------------------------------- payloads
MsgPayload(n) == [kind |-> "msg", ts |-> n[1], id |-> n[2], from |-> 0, text |-> 0]
BadPayload(n) == [NoPayload EXCEPT !.kind = "badjson", !.id = n[2]]
\* What a spool file holds before a run: a record as postMessage writes it,
\* text that is not JSON, a JSON object without a string ts, or a JSON
\* object whose ts is a string that Date.parse does not understand.
InitKinds == {"msg", "badjson", "nots", "badts"}

PayloadOf(n, kind) ==
    IF kind = "msg" THEN MsgPayload(n)
    ELSE IF kind = "badjson" THEN BadPayload(n)
    ELSE [NoPayload EXCEPT !.kind = kind, !.id = n[2]]

SpoolOf(kindOf) ==
    [n \in SpoolNames \cup {SubDir} |->
        IF n = SubDir THEN DirEntry ELSE PayloadOf(n, kindOf[n])]

\* Variant of jstDateKey: the calendar day is taken in UTC.
utcDateKey(ts) == ts \div DAY

\* jstDateKey: the calendar day of timestamp + 9h; the YYYY-MM-DD text is
\* represented by the day number it denotes.
jstDateKey(ts) == (ts + JST_OFFSET) \div DAY

\* ------------------------------------------------- Date and the cutoffs
\* The proleptic Gregorian calendar of Date: the day number (days since
\* 1970-01-01) of a year, month (1..12) and day of month, and back.
DaysFromCivil(y, m, d) ==
    LET yy == IF m <= 2 THEN y - 1 ELSE y
        era == yy \div 400
        yoe == yy - era * 400
        mp == IF m > 2 THEN m - 3 ELSE m + 9
        doy == (153 * mp + 2) \div 5 + d - 1
        doe == yoe * 365 + yoe \div 4 - yoe \div 100 + doy
    IN era * 146097 + doe - 719468

CivilFromDays(z) ==
    LET zz == z + 719468
        era == zz \div 146097
        doe == zz - era * 146097
        yoe == (doe - doe \div 1460 + doe \div 36524 - doe \div 146096) \div 365
        doy == doe - (365 * yoe + yoe \div 4 - yoe \div 100)
        mp == (5 * doy + 2) \div 153
        d == doy - (153 * mp + 2) \div 5 + 1
        m == IF mp < 10 THEN mp + 3 ELSE mp - 9
        y == yoe + era * 400 + (IF m <= 2 THEN 1 ELSE 0)
    IN <<y, m, d>>

\* Date.UTC(year, month, day) in hours: month counts from 0, a day past the
\* end of the month runs on into the next one.
DateUTC(year, month, day) == (DaysFromCivil(year, month + 1, 1) + day - 1) * DAY

\* getUTCFullYear, getUTCMonth (from 0), getUTCDate and getUTCDay (0 is
\* Sunday; 1970-01-01 was a Thursday) of the instant t.
UtcFields(t) ==
    LET days == t \div DAY
        c == CivilFromDays(days)
    IN [year |-> c[1], month |-> c[2] - 1, date |-> c[3], day |-> (days + 4) % 7]

startOfJstDayMs(t) ==
    LET jstDate == UtcFields(t + JST_OFFSET)
    IN DateUTC(jstDate.year, jstDate.month, jstDate.date) - JST_OFFSET

startOfJstWeekMs(t) ==
    LET jstDate == UtcFields(t + JST_OFFSET)
        daysSinceMonday == (jstDate.day + 6) % 7
        startOfDay == DateUTC(jstDate.year, jstDate.month, jstDate.date) - JST_OFFSET
    IN startOfDay - daysSinceMonday * DAY

\* jstDateKey as the text it returns: the fields of YYYY-MM-DD, which are
\* zero-padded, so the order of the texts is the order of the triples.
jstDateText(ts) ==
    LET jstDate == UtcFields(ts + JST_OFFSET)
    IN <<jstDate.year, jstDate.month + 1, jstDate.date>>

Undefined == [ok |-> FALSE, cutoffMs |-> 0]
\* An input that does not match /^\d{4}-\d{2}-\d{2}$/.
Malformed == <<>>

\* Variant of computeCutoffForDateInput: the cutoff is the start of the day
\* typed in, not of the day after it.
computeCutoffAtStartOfDate(input) ==
    IF Len(input) # 3 THEN Undefined
    ELSE LET year == input[1]
             month == input[2] - 1
             day == input[3]
         IN IF month < 0 \/ month > 11 \/ day < 1 \/ day > 31 THEN Undefined
            ELSE LET base == UtcFields(DateUTC(year, month, day))
                 IN IF base.year # year \/ base.month # month \/ base.date # day
                    THEN Undefined
                    ELSE [ok |-> TRUE,
                          cutoffMs |-> DateUTC(year, month, day) - JST_OFFSET]

\* computeCutoffForDateInput: undefined for a text that is not a calendar
\* date, otherwise the start of the next day in UTC+9.
computeCutoffForDateInput(input) ==
    IF Len(input) # 3 THEN Undefined
    ELSE LET year == input[1]
             month == input[2] - 1
             day == input[3]
         IN IF month < 0 \/ month > 11 \/ day < 1 \/ day > 31 THEN Undefined
            ELSE LET base == UtcFields(DateUTC(year, month, day))
                 IN IF base.year # year \/ base.month # month \/ base.date # day
                    THEN Undefined
                    ELSE [ok |-> TRUE,
                          cutoffMs |-> DateUTC(year, month, day + 1) - JST_OFFSET]

\* Cutoff instants (hours) of the compaction model: "through 1970-01-01" and
\* "through 1970-01-02", 15 and 39.
Cutoffs ==
    {computeCutoffForDateInput(input).cutoffMs : input \in {<<1970, 1, 1>>, <<1970, 1, 2>>}}

DayKeys == {jstDateKey(n[1]) : n \in SpoolNames}
FileNames(dir) == {n \in DOMAIN dir : dir[n].kind # "dir"}

\* Variant of Classify: the comparison with the cutoff is left out.
ClassifyIgnoringCutoff(payload, cutoffMs) ==
    IF payload.kind \in {"empty", "partial", "badjson", "notobject", "nots"} THEN "skip"
    ELSE IF payload.kind = "badts" THEN "notdue"
    ELSE "due"

\* The checks of processSpool between readFile and appendFile:
\* "skip" adds one to skipped, "notdue" changes no counter, "due" goes on.
Classify(payload, cutoffMs) ==
    IF payload.kind \in {"empty", "partial", "badjson", "notobject", "nots"} THEN "skip"
    ELSE IF payload.kind = "badts" \/ payload.ts >= cutoffMs THEN "notdue"
    ELSE "due"

RemoveName(dir, n) == [m \in DOMAIN dir \ {n} |-> dir[m]]

\* The view: no call yet, and a call of resetTimeline / appendTimeline with
\* the messages of a room, numbered in the order of the calls.
NoEvent == [seq |-> 0, kind |-> "none", room |-> 0, msgs |-> <<>>]
ViewEvent(kind, room, messages) ==
    [seq |-> lastEvent.seq + 1, kind |-> kind, room |-> room, msgs |-> messages]

\* ------------------------------------------------------------------ Init
\* The tailer after the initial load of the room, then empty: no cursor,
\* the poll timer running.
TailerLoaded ==
    /\ cursor = <<>>
    /\ cursorChain = {}
    /\ activeRoom = 1
    /\ polling = TRUE
    /\ ipc = "idle"
    /\ recent = <<>>
    /\ ridx = 0
    /\ rmsgs = <<>>
    /\ switches = 0
    /\ lastEvent = NoEvent

ScopeIdle(h) ==
    /\ clock = h
    /\ preset = "none"
    /\ dateInput = Malformed
    /\ scope = Undefined

\* No heartbeat and no scan has run; the presence directory is empty.
NoPresenceOp ==
    [op |-> "none", status |-> "none", user |-> <<>>, now |-> 0, ttlSec |-> 0,
     users |-> <<>>, errors |-> <<>>]

PresenceIdle ==
    /\ presence = [err |-> "none", entries |-> <<>>]
    /\ presenceOp = NoPresenceOp
    /\ heartbeats = 0

\* No listTail call has been followed with its arguments.
NoTailCall == [done |-> FALSE, limit |-> 0, files |-> <<>>]

\* The rooms the notification monitor watches (notifications.rooms): the
\* room of spool.  The doScan passes that can be told apart.
NoteRooms == {1}
Passes == {1, 2}

\* No trySetActiveRoom call has met a room that is not ready.
NoSwitchCall == [room |-> 0, status |-> "none"]

\* Rooms 1 and 2 are provisioned (room folder, msgs, attachments, logs);
\* room 3 is a name typed into the view for which nothing exists.
Rooms == {1, 2, 3}
ProvisionedRooms == {1, 2}

\* No postMessage call has been followed with its arguments.
NoPostCall == [writer |-> 0, text |-> <<>>, from |-> <<>>, status |-> "none"]

RoomFilesInit(sp) ==
    /\ now = 0
    /\ lock = NoLock
    /\ spool = sp
    /\ initial = sp
    /\ logs = [d \in DayKeys |-> <<>>]
    /\ pc = [p \in Procs |-> "idle"]
    /\ meta = [p \in Procs |-> 0]
    /\ existing = [p \in Procs |-> NoMeta]
    /\ cutoff = [p \in Procs |-> 0]
    /\ files = [p \in Procs |-> <<>>]
    /\ idx = [p \in Procs |-> 0]
    /\ cur = [p \in Procs |-> NoCur]
    /\ summary = [p \in Procs |-> NoSummary]
    /\ outcome = [p \in Procs |-> "none"]
    /\ ioFailed = [p \in Procs |-> FALSE]
    /\ ioFailures = 0
    /\ crashes = 0
    /\ crashedMid = {}
    /\ wpc = [w \in Writers |-> "idle"]
    /\ wname = [w \in Writers |-> <<>>]
    /\ wrec = [w \in Writers |-> NoPayload]
    /\ wclock = [w \in Writers |-> 0]
    /\ posts = 0
    /\ posted = {}
    /\ rpc = [s \in Calls |-> "idle"]
    /\ since = [s \in Calls |-> <<>>]
    /\ chain = [s \in Calls |-> {}]
    /\ newer = [s \in Calls |-> <<>>]
    /\ sidx = [s \in Calls |-> 0]
    /\ msgs = [s \in Calls |-> <<>>]
    /\ delivered = {}
    /\ partialReads = {}
    /\ skippedNames = {}
    /\ postCall = NoPostCall
    /\ tailCall = NoTailCall
    /\ switchCall = NoSwitchCall
    /\ roomDirs = ProvisionedRooms
    /\ presenceAvailable = FALSE
    /\ presenceTimers = FALSE
    /\ beatRun = 0
    /\ scanRun = 0
    /\ lastPresenceUsers = <<>>
    /\ viewUsers = <<>>
    /\ unreadCounts = [r \in NoteRooms |-> 0]
    /\ latestObserved = [r \in NoteRooms |-> <<>>]
    /\ noteTimer = FALSE
    /\ disposed = FALSE
    /\ scanPromise = FALSE
    /\ npc = [k \in Passes |-> "idle"]
    /\ nbase = [k \in Passes |-> <<>>]
    /\ scanRequest = "none"

FilesInit(sp) == RoomFilesInit(sp) /\ PresenceIdle

RoomInit(sp) == FilesInit(sp) /\ TailerLoaded

InitWith(sp) == RoomInit(sp) /\ ScopeIdle(0)

Init == \E kindOf \in [SpoolNames -> InitKinds] : InitWith(SpoolOf(kindOf))

\* ---------------------------------------------------------- withFileLock
\* The caller resolves the scope and enters withFileLock: now, expiresAt and
\* the metadata are computed once, before the acquisition loop.
Call(p) ==
    /\ pc[p] = "idle"
    /\ meta' = [meta EXCEPT ![p] = now + LOCK_TTL]
    /\ \E c \in Cutoffs : cutoff' = [cutoff EXCEPT ![p] = c]
    /\ pc' = [pc EXCEPT ![p] = "create"]
    /\ UNCHANGED <<now, lock, existing, outcome, crashes>>
    /\ UNCHANGED <<spool, logs, files, idx, cur, summary, ioFailed, ioFailures,
                   initial, crashedMid>>
    /\ UNCHANGED spoolVars

\* writeLockFile, first half: fs.open(lockPath, 'wx').  The file exists from
\* here on, with an empty body; EEXIST sends the caller to readLockMetadata.
CreateLock(p) ==
    /\ pc[p] = "create"
    /\ IF lock.present
       THEN /\ pc' = [pc EXCEPT ![p] = "read"]
            /\ lock' = lock
       ELSE /\ pc' = [pc EXCEPT ![p] = "write"]
            /\ lock' = [present |-> TRUE, owner |-> p, written |-> FALSE,
                        expiresAt |-> 0, detail |-> 0]
    /\ UNCHANGED <<now, meta, existing, outcome, crashes>>
    /\ UNCHANGED compactVars
    /\ UNCHANGED spoolVars

\* writeLockFile, second half: handle.writeFile(payload) and close.  The
\* write goes to the file the handle was opened on; when that file has been
\* unlinked meanwhile, no file under lockPath changes.
WriteLock(p) ==
    /\ pc[p] = "write"
    /\ lock' = IF lock.present /\ lock.owner = p
               THEN [lock EXCEPT !.written = TRUE, !.expiresAt = meta[p],
                                 !.detail = DetailOf(p)]
               ELSE lock
    /\ pc' = [pc EXCEPT ![p] = "fn"]
    /\ UNCHANGED <<now, meta, existing, outcome, crashes>>
    /\ UNCHANGED compactVars
    /\ UNCHANGED spoolVars

\* Variant of ReadLock: removeLock stands before the check, so the file of
\* a live holder is removed before LockUnavailableError is thrown.
ReadLockRemovesFirst(p) ==
    /\ pc[p] = "read"
    /\ existing' = [existing EXCEPT ![p] = readLockMetadata(lock)]
    /\ lock' = NoLock
    /\ IF ~existing'[p].ok \/ isExpired(existing'[p], now)
       THEN /\ pc' = [pc EXCEPT ![p] = "create"]
            /\ outcome' = outcome
       ELSE /\ pc' = [pc EXCEPT ![p] = "failed"]
            /\ outcome' = [outcome EXCEPT ![p] = "unavailable"]
    /\ UNCHANGED <<now, meta, crashes>>
    /\ UNCHANGED compactVars
    /\ UNCHANGED spoolVars

\* const existing = await readLockMetadata(lockPath);
\* if (!existing || isExpired(existing, Date.now())) go on to removeLock,
\* else throw LockUnavailableError.
ReadLock(p) ==
    /\ pc[p] = "read"
    /\ existing' = [existing EXCEPT ![p] = readLockMetadata(lock)]
    /\ IF ~existing'[p].ok \/ isExpired(existing'[p], now)
       THEN /\ pc' = [pc EXCEPT ![p] = "unlink"]
            /\ outcome' = outcome
       ELSE /\ pc' = [pc EXCEPT ![p] = "failed"]
            /\ outcome' = [outcome EXCEPT ![p] = "unavailable"]
    /\ UNCHANGED <<now, lock, meta, crashes>>
    /\ UNCHANGED compactVars
    /\ UNCHANGED spoolVars

\* removeLock inside the loop (ENOENT is swallowed), then `continue`.
RemoveStaleLock(p) ==
    /\ pc[p] = "unlink"
    /\ lock' = NoLock
    /\ pc' = [pc EXCEPT ![p] = "create"]
    /\ UNCHANGED <<now, meta, existing, outcome, crashes>>
    /\ UNCHANGED compactVars
    /\ UNCHANGED spoolVars

\* Variant of ReleaseLock: the removal follows fn instead of standing in a
\* finally block, so a throw of fn skips it.
ReleaseLockAfterReturnOnly(p) ==
    /\ pc[p] = "release"
    /\ lock' = IF outcome[p] = "threw" THEN lock ELSE NoLock
    /\ pc' = [pc EXCEPT ![p] = "done"]
    /\ UNCHANGED <<now, meta, existing, outcome, crashes>>
    /\ UNCHANGED compactVars
    /\ UNCHANGED spoolVars

\* finally { await removeLock(lockPath) }
ReleaseLock(p) ==
    /\ pc[p] = "release"
    /\ lock' = NoLock
    /\ pc' = [pc EXCEPT ![p] = "done"]
    /\ UNCHANGED <<now, meta, existing, outcome, crashes>>
    /\ UNCHANGED compactVars
    /\ UNCHANGED spoolVars

\* --------------------------------------------------------------- the clock
Tick ==
    /\ now < MaxTime
    /\ now' = now + 1
    /\ UNCHANGED <<lock, pc, meta, existing, outcome, crashes>>
    /\ UNCHANGED compactVars
    /\ UNCHANGED spoolVars

\* ---------------------------------------------------------- processSpool
lockFrame == <<now, lock, meta, existing, crashes>>

\* `continue` / end of the for loop: the next listed name, or return the
\* summary (the locals of processSpool go out of scope).
Advance(p) ==
    /\ cur' = [cur EXCEPT ![p] = NoCur]
    /\ IF idx[p] < Len(files[p])
       THEN /\ idx' = [idx EXCEPT ![p] = @ + 1]
            /\ pc' = [pc EXCEPT ![p] = "readFile"]
            /\ UNCHANGED <<outcome, files>>
       ELSE /\ idx' = [idx EXCEPT ![p] = 0]
            /\ files' = [files EXCEPT ![p] = <<>>]
            /\ pc' = [pc EXCEPT ![p] = "release"]
            /\ outcome' = [outcome EXCEPT ![p] = "returned"]

Skip(p) == summary' = [summary EXCEPT ![p].skipped = @ + 1]

IoFailure(p) ==
    /\ ioFailures < MaxIoFailures
    /\ ioFailures' = ioFailures + 1
    /\ ioFailed' = [ioFailed EXCEPT ![p] = TRUE]

\* fs.readdir(spoolDir) succeeded; files = toSortedFileNames(entries).
\* fs.mkdir(logsDir, {recursive: true}) changes nothing: the lock file was
\* created inside logsDir.
ListSpool(p) ==
    /\ pc[p] = "fn"
    /\ LET listed == toSortedFileNames(spool) IN
       IF Len(listed) = 0
       THEN /\ pc' = [pc EXCEPT ![p] = "release"]
            /\ outcome' = [outcome EXCEPT ![p] = "returned"]
            /\ UNCHANGED <<files, idx>>
       ELSE /\ pc' = [pc EXCEPT ![p] = "readFile"]
            /\ files' = [files EXCEPT ![p] = listed]
            /\ idx' = [idx EXCEPT ![p] = 1]
            /\ outcome' = outcome
    /\ UNCHANGED lockFrame
    /\ UNCHANGED <<spool, logs, cutoff, cur, summary, ioFailed, ioFailures,
                   initial, crashedMid>>
    /\ UNCHANGED spoolVars

\* fs.readdir(spoolDir) failed: the error is logged and rethrown out of fn.
ListSpoolFails(p) ==
    /\ pc[p] = "fn"
    /\ IoFailure(p)
    /\ pc' = [pc EXCEPT ![p] = "release"]
    /\ outcome' = [outcome EXCEPT ![p] = "threw"]
    /\ UNCHANGED lockFrame
    /\ UNCHANGED <<spool, logs, cutoff, files, idx, cur, summary, initial, crashedMid>>
    /\ UNCHANGED spoolVars

\* fs.readFile(filePath) and the checks up to `considered++`.  A name that
\* is gone by now fails the read with ENOENT.
ReadSpoolFile(p) ==
    /\ pc[p] = "readFile"
    /\ LET name == files[p][idx[p]] IN
       IF name \notin DOMAIN spool
       THEN Skip(p) /\ Advance(p)
       ELSE LET payload == spool[name]
                class == Classify(payload, cutoff[p]) IN
            IF class = "skip" THEN Skip(p) /\ Advance(p)
            ELSE IF class = "notdue" THEN summary' = summary /\ Advance(p)
            ELSE /\ summary' = [summary EXCEPT ![p].considered = @ + 1]
                 /\ cur' = [cur EXCEPT ![p] =
                        [payload |-> payload, day |-> jstDateKey(payload.ts)]]
                 /\ pc' = [pc EXCEPT ![p] = "append"]
                 /\ UNCHANGED <<idx, outcome, files>>
    /\ UNCHANGED lockFrame
    /\ UNCHANGED <<spool, logs, cutoff, ioFailed, ioFailures, initial, crashedMid>>
    /\ UNCHANGED spoolVars

\* Variant of ReadSpoolFileFails: the error of readFile is rethrown out of
\* processSpool instead of being counted.
ReadSpoolFileFailsThrows(p) ==
    /\ pc[p] = "readFile"
    /\ files[p][idx[p]] \in DOMAIN spool
    /\ IoFailure(p)
    /\ pc' = [pc EXCEPT ![p] = "release"]
    /\ outcome' = [outcome EXCEPT ![p] = "threw"]
    /\ UNCHANGED lockFrame
    /\ UNCHANGED <<spool, logs, cutoff, files, idx, cur, summary, initial, crashedMid>>
    /\ UNCHANGED spoolVars

\* fs.readFile(filePath) failed for another reason than a missing file.
ReadSpoolFileFails(p) ==
    /\ pc[p] = "readFile"
    /\ files[p][idx[p]] \in DOMAIN spool
    /\ IoFailure(p)
    /\ Skip(p) /\ Advance(p)
    /\ UNCHANGED lockFrame
    /\ UNCHANGED <<spool, logs, cutoff, initial, crashedMid>>
    /\ UNCHANGED spoolVars

\* fs.appendFile(dayPath, line) succeeded.
AppendLine(p) ==
    /\ pc[p] = "append"
    /\ logs' = [logs EXCEPT ![cur[p].day] = Append(@, cur[p].payload)]
    /\ pc' = [pc EXCEPT ![p] = "unlinkSpool"]
    /\ UNCHANGED lockFrame
    /\ UNCHANGED <<spool, cutoff, files, idx, cur, summary, outcome, ioFailed,
                   ioFailures, initial, crashedMid>>
    /\ UNCHANGED spoolVars

\* Variant of AppendLineFails: the `continue` is missing, so the failed
\* append falls through to the unlink.
AppendLineFailsFallsThrough(p) ==
    /\ pc[p] = "append"
    /\ IoFailure(p)
    /\ Skip(p)
    /\ pc' = [pc EXCEPT ![p] = "unlinkSpool"]
    /\ UNCHANGED lockFrame
    /\ UNCHANGED <<spool, logs, cutoff, files, idx, cur, outcome, initial, crashedMid>>
    /\ UNCHANGED spoolVars

\* fs.appendFile failed: skipped++, continue; the spool file is kept.
AppendLineFails(p) ==
    /\ pc[p] = "append"
    /\ IoFailure(p)
    /\ Skip(p) /\ Advance(p)
    /\ UNCHANGED lockFrame
    /\ UNCHANGED <<spool, logs, cutoff, initial, crashedMid>>
    /\ UNCHANGED spoolVars

\* Variant of UnlinkSpoolFile: the unlink is left out.
UnlinkSpoolFileKeeps(p) ==
    /\ pc[p] = "unlinkSpool"
    /\ spool' = spool
    /\ summary' = [summary EXCEPT ![p].appended = @ + 1,
                                  ![p].days = @ \cup {cur[p].day}]
    /\ Advance(p)
    /\ UNCHANGED lockFrame
    /\ UNCHANGED <<logs, cutoff, ioFailed, ioFailures, initial, crashedMid>>
    /\ UNCHANGED spoolVars

\* fs.unlink(filePath) succeeded or found the file gone (ENOENT):
\* appended++, daysTouched.add(dayKey).
UnlinkSpoolFile(p) ==
    /\ pc[p] = "unlinkSpool"
    /\ spool' = RemoveName(spool, files[p][idx[p]])
    /\ summary' = [summary EXCEPT ![p].appended = @ + 1,
                                  ![p].days = @ \cup {cur[p].day}]
    /\ Advance(p)
    /\ UNCHANGED lockFrame
    /\ UNCHANGED <<logs, cutoff, ioFailed, ioFailures, initial, crashedMid>>
    /\ UNCHANGED spoolVars

\* fs.unlink failed with another error than ENOENT: skipped++, continue.
UnlinkSpoolFileFails(p) ==
    /\ pc[p] = "unlinkSpool"
    /\ files[p][idx[p]] \in DOMAIN spool
    /\ IoFailure(p)
    /\ Skip(p) /\ Advance(p)
    /\ UNCHANGED lockFrame
    /\ UNCHANGED <<spool, logs, cutoff, initial, crashedMid>>
    /\ UNCHANGED spoolVars

\* The process is killed in the middle of the command: nothing it had in
\* memory survives, no cleanup runs, the files stay as they are.
Crash(p) ==
    /\ pc[p] \notin {"idle", "done", "failed", "dead"}
    /\ crashes < MaxCrashes
    /\ crashes' = crashes + 1
    /\ crashedMid' = IF pc[p] = "unlinkSpool"
                     THEN crashedMid \cup {files[p][idx[p]]}
                     ELSE crashedMid
    /\ pc' = [pc EXCEPT ![p] = "dead"]
    /\ meta' = [meta EXCEPT ![p] = 0]
    /\ existing' = [existing EXCEPT ![p] = NoMeta]
    /\ cutoff' = [cutoff EXCEPT ![p] = 0]
    /\ files' = [files EXCEPT ![p] = <<>>]
    /\ idx' = [idx EXCEPT ![p] = 0]
    /\ cur' = [cur EXCEPT ![p] = NoCur]
    /\ summary' = [summary EXCEPT ![p] = NoSummary]
    /\ outcome' = [outcome EXCEPT ![p] = "none"]
    /\ ioFailed' = [ioFailed EXCEPT ![p] = FALSE]
    /\ UNCHANGED <<now, lock, spool, logs, ioFailures, initial>>
    /\ UNCHANGED spoolVars

LockStep(p) ==
    \/ Call(p)
    \/ CreateLock(p)
    \/ WriteLock(p)
    \/ ReadLock(p)
    \/ RemoveStaleLock(p)
    \/ ReleaseLock(p)

Next ==
    \/ \E p \in Procs : LockStep(p)
    \/ \E p \in Procs : ListSpool(p)
    \/ \E p \in Procs : ListSpoolFails(p)
    \/ \E p \in Procs : ReadSpoolFile(p)
    \/ \E p \in Procs : ReadSpoolFileFails(p)
    \/ \E p \in Procs : AppendLine(p)
    \/ \E p \in Procs : AppendLineFails(p)
    \/ \E p \in Procs : UnlinkSpoolFile(p)
    \/ \E p \in Procs : UnlinkSpoolFileFails(p)
    \/ \E p \in Procs : Crash(p)
    \/ Tick

Spec == Init /\ [][Next]_vars

\* ------------------------------------------------- withFileLock by itself
\* LockSpec: withFileLock around an arbitrary fn, called again and again.
EmptyDir == [n \in {SubDir} |-> DirEntry]

LockInit == InitWith(EmptyDir)

\* await fn() returned.
FnReturns(p) ==
    /\ pc[p] = "fn"
    /\ pc' = [pc EXCEPT ![p] = "release"]
    /\ outcome' = [outcome EXCEPT ![p] = "returned"]
    /\ UNCHANGED lockFrame
    /\ UNCHANGED compactVars
    /\ UNCHANGED spoolVars

\* await fn() threw.
FnThrows(p) ==
    /\ pc[p] = "fn"
    /\ pc' = [pc EXCEPT ![p] = "release"]
    /\ outcome' = [outcome EXCEPT ![p] = "threw"]
    /\ UNCHANGED lockFrame
    /\ UNCHANGED compactVars
    /\ UNCHANGED spoolVars

\* The promise of withFileLock has settled; the caller may call again.
Return(p) ==
    /\ pc[p] \in {"done", "failed"}
    /\ pc' = [pc EXCEPT ![p] = "idle"]
    /\ outcome' = [outcome EXCEPT ![p] = "none"]
    /\ existing' = [existing EXCEPT ![p] = NoMeta]
    /\ meta' = [meta EXCEPT ![p] = 0]
    /\ cutoff' = [cutoff EXCEPT ![p] = 0]
    /\ UNCHANGED <<now, lock, crashes>>
    /\ UNCHANGED <<spool, logs, files, idx, cur, summary, ioFailed, ioFailures,
                   initial, crashedMid>>
    /\ UNCHANGED spoolVars

LockNext ==
    \/ \E p \in Procs : LockStep(p)
    \/ \E p \in Procs : FnReturns(p)
    \/ \E p \in Procs : FnThrows(p)
    \/ \E p \in Procs : Return(p)
    \/ \E p \in Procs : Crash(p)
    \/ Tick

LockSpec == LockInit /\ [][LockNext]_vars

\* Every file-system call and every fn that was started completes.
Progress(p) ==
    \/ CreateLock(p)
    \/ WriteLock(p)
    \/ ReadLock(p)
    \/ RemoveStaleLock(p)
    \/ FnReturns(p)
    \/ ReleaseLock(p)

FairLockSpec == LockSpec /\ \A p \in Procs : WF_vars(Progress(p))

\* ------------------------------------------- postMessage, writeJsonAtomic
postFrame == <<lockVars, logs, cutoff, files, idx, cur, summary, ioFailed,
               ioFailures, initial, crashedMid, scopeVars, presenceVars>>
compactFrame == <<postFrame, postVars, callVars>>
\* What the end of loadInitialTimeline and of loadIncremental leaves alone.
loadFrame == <<postFrame, postVars, tailCall, switchCall, roomDirs, availVars,
               noteTimer, disposed, scanPromise, npc, nbase, scanRequest>>

\* notificationMonitor.markRoomRead(room) with lastSeen the cursor of the
\* room: its count is deleted, latestObserved is set to lastSeen, or
\* deleted when there is none.
markRoomRead(room, lastSeen) ==
    /\ unreadCounts' = [unreadCounts EXCEPT ![room] = 0]
    /\ latestObserved' = [latestObserved EXCEPT ![room] = lastSeen]

\* createTempName(baseName): "<name>.<12 hex chars>.tmp".  The random part
\* is taken to differ between the calls in progress, so it is the writer.
createTempName(name, w) == name \o <<w>>

\* formatTimestamp(now) + "_" + id + ".json"
FileNameOf(t, id) == <<t, id>>

WriteEntry(dir, n, content) ==
    [m \in DOMAIN dir \cup {n} |-> IF m = n THEN content ELSE dir[m]]

\* fs.rename(tmpPath, finalPath): the entry moves to the final name and
\* takes the place of whatever file had that name.
RenameEntry(dir, from, to) ==
    [m \in (DOMAIN dir \ {from}) \cup {to} |-> IF m = to THEN dir[from] ELSE dir[m]]

\* postMessage up to the call of writeJsonAtomic: the text and the sender
\* are valid, the room is ready; now = new Date(), id = randomBytes(4).
Post(w) ==
    /\ wpc[w] = "idle"
    /\ posts < MaxPosts
    /\ \E t \in Times, id \in Ids :
          /\ t >= wclock[w]
          /\ wclock' = [wclock EXCEPT ![w] = t]
          /\ wname' = [wname EXCEPT ![w] = FileNameOf(t, id)]
          /\ wrec' = [wrec EXCEPT ![w] =
                [kind |-> "msg", ts |-> t, id |-> id, from |-> w, text |-> posts + 1]]
    /\ posts' = posts + 1
    /\ wpc' = [wpc EXCEPT ![w] = "openTmp"]
    /\ UNCHANGED <<spool, posted>>
    /\ UNCHANGED readerVars
    /\ UNCHANGED compactFrame

\* fs.writeFile(tmpPath, payload), first half: the temporary file is
\* created (or truncated) and holds less than the payload.
OpenTmp(w) ==
    /\ wpc[w] = "openTmp"
    /\ spool' = WriteEntry(spool, createTempName(wname[w], w),
                           [wrec[w] EXCEPT !.kind = "partial"])
    /\ wpc' = [wpc EXCEPT ![w] = "fillTmp"]
    /\ UNCHANGED <<wname, wrec, wclock, posts, posted>>
    /\ UNCHANGED readerVars
    /\ UNCHANGED compactFrame

\* fs.writeFile(tmpPath, payload), second half: the payload is complete.
FillTmp(w) ==
    /\ wpc[w] = "fillTmp"
    /\ spool' = WriteEntry(spool, createTempName(wname[w], w), wrec[w])
    /\ wpc' = [wpc EXCEPT ![w] = "rename"]
    /\ UNCHANGED <<wname, wrec, wclock, posts, posted>>
    /\ UNCHANGED readerVars
    /\ UNCHANGED compactFrame

\* fs.rename(tmpPath, finalPath); postMessage returns the message.  With the
\* temporary file gone the rename fails and postMessage throws.
Rename(w) ==
    /\ wpc[w] = "rename"
    /\ LET tmp == createTempName(wname[w], w) IN
       IF tmp \in DOMAIN spool
       THEN /\ spool' = RenameEntry(spool, tmp, wname[w])
            /\ posted' = posted \cup {wrec[w]}
       ELSE UNCHANGED <<spool, posted>>
    /\ wpc' = [wpc EXCEPT ![w] = "idle"]
    /\ wname' = [wname EXCEPT ![w] = <<>>]
    /\ wrec' = [wrec EXCEPT ![w] = NoPayload]
    /\ UNCHANGED <<wclock, posts>>
    /\ UNCHANGED readerVars
    /\ UNCHANGED compactFrame

\* ------------------------------------------------ listSince, loadIncremental
\* Variant of FilterGreater: the comparison is >= instead of >.
RECURSIVE FilterGreaterOrEqual(_, _)
FilterGreaterOrEqual(names, lastName) ==
    IF Len(names) = 0 THEN <<>>
    ELSE IF ~NameLess(Head(names), lastName)
         THEN <<Head(names)>> \o FilterGreaterOrEqual(Tail(names), lastName)
         ELSE FilterGreaterOrEqual(Tail(names), lastName)

\* files.filter((name) => name > lastName)
RECURSIVE FilterGreater(_, _)
FilterGreater(names, lastName) ==
    IF Len(names) = 0 THEN <<>>
    ELSE IF NameLess(lastName, Head(names))
         THEN <<Head(names)>> \o FilterGreater(Tail(names), lastName)
         ELSE FilterGreater(Tail(names), lastName)

listSince(dir, lastName) == FilterGreater(toSortedFileNames(dir), lastName)

\* The poll timer fires: loadIncremental(room) reads lastSeen and calls
\* listSince(msgsDir, lastSeen ?? '').  The timer does not wait for the
\* call before; a new call takes the lowest slot that is free.
PollTick(s) ==
    /\ polling /\ activeRoom = 1
    /\ rpc[s] = "idle"
    /\ \A other \in Calls : other < s => rpc[other] # "idle"
    /\ since' = [since EXCEPT ![s] = cursor]
    /\ chain' = [chain EXCEPT ![s] = cursorChain]
    /\ rpc' = [rpc EXCEPT ![s] = "list"]
    /\ UNCHANGED <<cursor, cursorChain, newer, sidx, msgs, delivered, partialReads, skippedNames>>
    /\ UNCHANGED <<loadVars, lastEvent>>
    /\ UNCHANGED <<spool, writerVars>>
    /\ UNCHANGED compactFrame

\* fs.readdir resolved: newer = listSince(...).files; nothing newer ends
\* the cycle.
ListSince(s) ==
    /\ rpc[s] = "list"
    /\ LET result == listSince(spool, since[s]) IN
       IF Len(result) = 0
       THEN /\ rpc' = [rpc EXCEPT ![s] = "idle"]
            /\ since' = [since EXCEPT ![s] = <<>>]
            /\ chain' = [chain EXCEPT ![s] = {}]
            /\ UNCHANGED <<newer, sidx>>
       ELSE /\ rpc' = [rpc EXCEPT ![s] = "read"]
            /\ newer' = [newer EXCEPT ![s] = result]
            /\ sidx' = [sidx EXCEPT ![s] = 1]
            /\ UNCHANGED <<since, chain>>
    /\ UNCHANGED <<cursor, cursorChain, msgs, delivered, partialReads, skippedNames>>
    /\ UNCHANGED <<loadVars, lastEvent>>
    /\ UNCHANGED <<spool, writerVars>>
    /\ UNCHANGED compactFrame

\* deliverMessages: readMessage(dir, file) for the next file; a file that
\* is missing or does not parse is logged and left out.
ReadMessage(s) ==
    /\ rpc[s] = "read"
    /\ LET name == newer[s][sidx[s]]
           found == name \in DOMAIN spool IN
       /\ msgs' = IF found /\ spool[name].kind = "msg"
                  THEN [msgs EXCEPT ![s] = Append(@, spool[name])]
                  ELSE msgs
       /\ partialReads' = IF found /\ spool[name].kind = "partial"
                          THEN partialReads \cup {name}
                          ELSE partialReads
       /\ skippedNames' = IF found /\ spool[name].kind = "msg"
                          THEN skippedNames
                          ELSE skippedNames \cup {name}
    /\ IF sidx[s] < Len(newer[s])
       THEN /\ sidx' = [sidx EXCEPT ![s] = @ + 1]
            /\ rpc' = rpc
       ELSE /\ sidx' = [sidx EXCEPT ![s] = 0]
            /\ rpc' = [rpc EXCEPT ![s] = "emit"]
    /\ UNCHANGED <<cursor, cursorChain, since, chain, newer, delivered>>
    /\ UNCHANGED <<loadVars, lastEvent>>
    /\ UNCHANGED <<spool, writerVars>>
    /\ UNCHANGED compactFrame

\* Variant of Emit: the kind is always 'append'.
EmitAlwaysAppend(s) ==
    /\ rpc[s] = "emit"
    /\ delivered' = delivered \cup Range(msgs[s])
    /\ lastEvent' = IF Len(msgs[s]) > 0 THEN ViewEvent("append", 1, msgs[s])
                    ELSE lastEvent
    /\ msgs' = [msgs EXCEPT ![s] = <<>>]
    /\ rpc' = [rpc EXCEPT ![s] = "update"]
    /\ UNCHANGED <<cursor, cursorChain, since, chain, newer, sidx, partialReads, skippedNames>>
    /\ UNCHANGED loadVars
    /\ UNCHANGED <<spool, writerVars>>
    /\ UNCHANGED compactFrame

\* deliverMessages: view.resetTimeline(messages) when lastSeen was absent,
\* view.appendTimeline(messages) otherwise.
Emit(s) ==
    /\ rpc[s] = "emit"
    /\ delivered' = delivered \cup Range(msgs[s])
    /\ lastEvent' = IF since[s] = <<>> THEN ViewEvent("reset", 1, msgs[s])
                    ELSE IF Len(msgs[s]) > 0 THEN ViewEvent("append", 1, msgs[s])
                    ELSE lastEvent
    /\ msgs' = [msgs EXCEPT ![s] = <<>>]
    /\ rpc' = [rpc EXCEPT ![s] = "update"]
    /\ UNCHANGED <<cursor, cursorChain, since, chain, newer, sidx, partialReads, skippedNames>>
    /\ UNCHANGED loadVars
    /\ UNCHANGED <<spool, writerVars>>
    /\ UNCHANGED compactFrame

\* updateLastSeenMessageName(room, newer[newer.length - 1]), then
\* notificationMonitor.markRoomRead(room)
UpdateCursor(s) ==
    /\ rpc[s] = "update"
    /\ cursor' = newer[s][Len(newer[s])]
    /\ cursorChain' = chain[s] \cup Range(newer[s])
    /\ rpc' = [rpc EXCEPT ![s] = "idle"]
    /\ since' = [since EXCEPT ![s] = <<>>]
    /\ chain' = [chain EXCEPT ![s] = {}]
    /\ newer' = [newer EXCEPT ![s] = <<>>]
    /\ UNCHANGED <<sidx, msgs, delivered, partialReads, skippedNames>>
    /\ UNCHANGED <<loadVars, lastEvent>>
    /\ UNCHANGED <<spool, writerVars>>
    /\ UNCHANGED loadFrame
    /\ markRoomRead(1, cursor')

\* raBoard.devForcePoll: room = activeRoom, then loadIncremental(room), with
\* or without a timer and whatever else is in flight.
ForcePoll(s) ==
    /\ activeRoom = 1
    /\ rpc[s] = "idle"
    /\ \A other \in Calls : other < s => rpc[other] # "idle"
    /\ since' = [since EXCEPT ![s] = cursor]
    /\ chain' = [chain EXCEPT ![s] = cursorChain]
    /\ rpc' = [rpc EXCEPT ![s] = "list"]
    /\ UNCHANGED <<cursor, cursorChain, newer, sidx, msgs, delivered, partialReads, skippedNames>>
    /\ UNCHANGED <<loadVars, lastEvent>>
    /\ UNCHANGED <<spool, writerVars>>
    /\ UNCHANGED compactFrame

SpoolInit == InitWith(EmptyDir)

SpoolNext ==
    \/ \E w \in Writers : Post(w)
    \/ \E w \in Writers : OpenTmp(w)
    \/ \E w \in Writers : FillTmp(w)
    \/ \E w \in Writers : Rename(w)
    \/ \E s \in Slots : PollTick(s)
    \/ \E s \in Slots : ListSince(s)
    \/ \E s \in Slots : ReadMessage(s)
    \/ \E s \in Slots : Emit(s)
    \/ \E s \in Slots : UpdateCursor(s)

SpoolSpec == SpoolInit /\ [][SpoolNext]_vars

\* ------------------------------------- trySetActiveRoom, loadInitialTimeline
\* TailSpec: the tailer from the activation of the extension on, with room
\* switches, over a room that holds files already.
pollFrame == <<rpc, since, chain, newer, sidx, msgs, partialReads, skippedNames>>

\* Array.prototype.slice(start): a negative start counts from the end, and
\* either is clamped to the array.
slice(arr, start) ==
    LET from == IF start < 0
                THEN (IF Len(arr) + start < 0 THEN 0 ELSE Len(arr) + start)
                ELSE (IF start > Len(arr) THEN Len(arr) ELSE start)
    IN SubSeq(arr, from + 1, Len(arr))

\* Variant of listTail: no test of the limit before the slice.
listTailUnguarded(dir, limit) == slice(toSortedFileNames(dir), 0 - limit)

\* files.slice(-limit) of the sorted file names; [] for limit <= 0.
listTail(dir, limit) ==
    LET listed == toSortedFileNames(dir) IN
    IF limit <= 0 THEN <<>>
    ELSE slice(listed, 0 - limit)

\* trySetActiveRoom(room) for the room of spool, which is not the active
\* one and passes ensureRoomReady: stopPolling(), activeRoom = room,
\* boardViewProvider.resetTimeline([]).
SetActiveRoom ==
    /\ ipc = "idle"
    /\ activeRoom # 1
    /\ switches < MaxSwitches
    /\ switches' = switches + 1
    /\ polling' = FALSE
    /\ activeRoom' = 1
    /\ lastEvent' = ViewEvent("reset", 1, <<>>)
    /\ ipc' = "tail"
    /\ UNCHANGED <<recent, ridx, rmsgs, cursor, cursorChain, delivered>>
    /\ UNCHANGED pollFrame
    /\ UNCHANGED <<spool, writerVars>>
    /\ UNCHANGED compactFrame

\* trySetActiveRoom(other) for another room, whose own loading is not
\* followed: the timer of this room is cleared, the view is emptied and is
\* the other room's from now on.
SwitchAway ==
    /\ ipc = "idle"
    /\ activeRoom = 1
    /\ switches < MaxSwitches
    /\ switches' = switches + 1
    /\ polling' = FALSE
    /\ activeRoom' = 2
    /\ lastEvent' = ViewEvent("reset", 2, <<>>)
    /\ UNCHANGED <<ipc, recent, ridx, rmsgs, cursor, cursorChain, delivered>>
    /\ UNCHANGED pollFrame
    /\ UNCHANGED <<spool, writerVars>>
    /\ UNCHANGED compactFrame

\* loadInitialTimeline: recent = await listTail(msgsDir, initialLoadLimit)
ListTail ==
    /\ ipc = "tail"
    /\ recent' = listTail(spool, initialLoadLimit)
    /\ IF Len(recent') = 0
       THEN ipc' = "emit" /\ ridx' = 0
       ELSE ipc' = "read" /\ ridx' = 1
    /\ UNCHANGED <<activeRoom, polling, rmsgs, switches, lastEvent>>
    /\ UNCHANGED <<cursor, cursorChain, delivered>>
    /\ UNCHANGED pollFrame
    /\ UNCHANGED <<spool, writerVars>>
    /\ UNCHANGED compactFrame

\* deliverMessages('reset', msgsDir, recent): readMessage for the next file.
ReadRecent ==
    /\ ipc = "read"
    /\ LET name == recent[ridx]
           found == name \in DOMAIN spool IN
       /\ rmsgs' = IF found /\ spool[name].kind = "msg"
                   THEN Append(rmsgs, spool[name])
                   ELSE rmsgs
       /\ partialReads' = IF found /\ spool[name].kind = "partial"
                          THEN partialReads \cup {name}
                          ELSE partialReads
       /\ skippedNames' = IF found /\ spool[name].kind = "msg"
                          THEN skippedNames
                          ELSE skippedNames \cup {name}
    /\ IF ridx < Len(recent)
       THEN ridx' = ridx + 1 /\ ipc' = ipc
       ELSE ridx' = 0 /\ ipc' = "emit"
    /\ UNCHANGED <<activeRoom, polling, recent, switches, lastEvent>>
    /\ UNCHANGED <<cursor, cursorChain, delivered>>
    /\ UNCHANGED <<rpc, since, chain, newer, sidx, msgs>>
    /\ UNCHANGED <<spool, writerVars>>
    /\ UNCHANGED compactFrame

\* Variant of EmitReset: resetTimeline is called only when there are
\* messages, as appendTimeline is.
EmitResetUnlessEmpty ==
    /\ ipc = "emit"
    /\ lastEvent' = IF Len(rmsgs) > 0 THEN ViewEvent("reset", 1, rmsgs) ELSE lastEvent
    /\ delivered' = delivered \cup Range(rmsgs)
    /\ rmsgs' = <<>>
    /\ ipc' = "update"
    /\ UNCHANGED <<activeRoom, polling, recent, ridx, switches>>
    /\ UNCHANGED <<cursor, cursorChain>>
    /\ UNCHANGED pollFrame
    /\ UNCHANGED <<spool, writerVars>>
    /\ UNCHANGED compactFrame

\* deliverMessages('reset', ...): view.resetTimeline(messages)
EmitReset ==
    /\ ipc = "emit"
    /\ lastEvent' = ViewEvent("reset", 1, rmsgs)
    /\ delivered' = delivered \cup Range(rmsgs)
    /\ rmsgs' = <<>>
    /\ ipc' = "update"
    /\ UNCHANGED <<activeRoom, polling, recent, ridx, switches>>
    /\ UNCHANGED <<cursor, cursorChain>>
    /\ UNCHANGED pollFrame
    /\ UNCHANGED <<spool, writerVars>>
    /\ UNCHANGED compactFrame

\* updateLastSeenMessageName(room, recent.length > 0 ? last : undefined);
\* back in trySetActiveRoom: announceRoom, startPolling().
FinishInitialLoad ==
    /\ ipc = "update"
    /\ cursor' = IF Len(recent) > 0 THEN recent[Len(recent)] ELSE <<>>
    /\ cursorChain' = Range(recent)
    /\ recent' = <<>>
    /\ polling' = TRUE
    /\ ipc' = "idle"
    /\ UNCHANGED <<activeRoom, ridx, rmsgs, switches, lastEvent, delivered>>
    /\ UNCHANGED pollFrame
    /\ UNCHANGED <<spool, writerVars>>
    /\ UNCHANGED loadFrame
    /\ markRoomRead(1, cursor')

\* The extension was just activated: no active room, no timer, and the
\* cursor restored from globalState, if one was stored.
TailerFresh(stored) ==
    /\ cursor = stored
    /\ cursorChain = {}
    /\ activeRoom = 0
    /\ polling = FALSE
    /\ ipc = "idle"
    /\ recent = <<>>
    /\ ridx = 0
    /\ rmsgs = <<>>
    /\ switches = 0
    /\ lastEvent = NoEvent

\* What msgs holds at the activation: nothing, or three files of which the
\* middle one is not JSON.
TailDirs ==
    {EmptyDir,
     WriteEntry(WriteEntry(WriteEntry(EmptyDir,
         <<0, 1>>, MsgPayload(<<0, 1>>)),
         <<0, 2>>, BadPayload(<<0, 2>>)),
         <<1, 1>>, MsgPayload(<<1, 1>>))}

StoredCursors == {<<>>, <<0, 2>>}
\* The writer that posts while the tailer is followed.
TailWriters == {1}

TailInit ==
    \E dir \in TailDirs, stored \in StoredCursors :
        FilesInit(dir) /\ TailerFresh(stored) /\ ScopeIdle(0)

TailNext ==
    \/ SetActiveRoom
    \/ SwitchAway
    \/ ListTail
    \/ ReadRecent
    \/ EmitReset
    \/ FinishInitialLoad
    \/ \E s \in Slots : PollTick(s)
    \/ \E s \in Slots : ListSince(s)
    \/ \E s \in Slots : ReadMessage(s)
    \/ \E s \in Slots : Emit(s)
    \/ \E s \in Slots : UpdateCursor(s)
    \/ \E w \in TailWriters : Post(w)
    \/ \E w \in TailWriters : OpenTmp(w)
    \/ \E w \in TailWriters : FillTmp(w)
    \/ \E w \in TailWriters : Rename(w)

TailSpec == TailInit /\ [][TailNext]_vars

\* ------------------------------------------------ overlapping loadIncremental
\* PollSpec: the active room after its initial load, never switched away
\* from, with up to two loadIncremental calls in flight: the timer's call and
\* a forced poll that finds it unfinished.  The room was empty at the initial
\* load; it is empty still, or three files have arrived since.
PollInit == \E dir \in TailDirs : InitWith(dir)

\* postMessage calls followed in PollSpec
PostsWhilePolling ==
    \E w \in TailWriters : posts < MaxPollPosts /\ Post(w)

PollNext ==
    \/ PollTick(1)
    \/ ForcePoll(2)
    \/ \E s \in Calls : ListSince(s)
    \/ \E s \in Calls : ReadMessage(s)
    \/ \E s \in Calls : Emit(s)
    \/ \E s \in Calls : UpdateCursor(s)
    \/ PostsWhilePolling
    \/ \E w \in TailWriters : OpenTmp(w)
    \/ \E w \in TailWriters : FillTmp(w)
    \/ \E w \in TailWriters : Rename(w)

PollSpec == PollInit /\ [][PollNext]_vars

\* ---------------------------------------------------------------- presence
\* PresenceSpec: heartbeat and scanPresence over a presence directory.  User
\* names and file names are sequences of one-character strings; a file name
\* is its stem and its extension.
presenceFrame == <<lockVars, compactVars, writerVars, readerVars, scopeVars, postVars,
                   callVars>>

\* String.prototype.toLowerCase, character by character
toLowerCase(s) == [i \in 1..Len(s) |-> IF s[i] = "A" THEN "a" ELSE s[i]]

RECURSIVE trimStart(_)
trimStart(s) ==
    IF Len(s) > 0 /\ Head(s) = " " THEN trimStart(Tail(s)) ELSE s

RECURSIVE trimEnd(_)
trimEnd(s) ==
    IF Len(s) > 0 /\ s[Len(s)] = " " THEN trimEnd(SubSeq(s, 1, Len(s) - 1)) ELSE s

\* String.prototype.trim
trim(s) == trimEnd(trimStart(s))

\* The class [A-Za-z0-9._-]
IsNameChar(c) == c \in {"a", "A", "b", "k", "n", "o", "u", "w", "0", ".", "_", "-"}

\* replace(/[^A-Za-z0-9._-]+/g, '_'): every maximal run of other characters
\* becomes one underscore.
RECURSIVE replaceInvalidRuns(_, _)
replaceInvalidRuns(s, inRun) ==
    IF Len(s) = 0 THEN <<>>
    ELSE IF IsNameChar(Head(s))
         THEN <<Head(s)>> \o replaceInvalidRuns(Tail(s), FALSE)
         ELSE (IF inRun THEN <<>> ELSE <<"_">>) \o replaceInvalidRuns(Tail(s), TRUE)

RECURSIVE stripLeadingUnderscores(_)
stripLeadingUnderscores(s) ==
    IF Len(s) > 0 /\ Head(s) = "_" THEN stripLeadingUnderscores(Tail(s)) ELSE s

RECURSIVE stripTrailingUnderscores(_)
stripTrailingUnderscores(s) ==
    IF Len(s) > 0 /\ s[Len(s)] = "_"
    THEN stripTrailingUnderscores(SubSeq(s, 1, Len(s) - 1))
    ELSE s

\* replace(/^_+|_+$/g, '')
stripUnderscores(s) == stripTrailingUnderscores(stripLeadingUnderscores(s))

\* Variant of sanitizeUserName: the name is trimmed and nothing else.
sanitizeUserNameTrimOnly(user) ==
    LET sanitized == trim(user)
    IN [ok |-> Len(sanitized) > 0, name |-> sanitized]

\* sanitizeUserName: ok is FALSE where the code throws
\* Error('Presence user name must contain at least one valid character.')
sanitizeUserName(user) ==
    LET sanitized == stripUnderscores(replaceInvalidRuns(trim(user), FALSE))
    IN [ok |-> Len(sanitized) > 0, name |-> sanitized]

ValidationError == "Error: Presence user name must contain at least one valid character."

\* toPresenceEntry(user, date), as the parsed body of the file
toPresenceEntry(user, date) == [kind |-> "json", user |-> user, ts |-> date]

\* Variant of isMissingError: ENOENT only.
isMissingErrorEnoentOnly(code) == code = "ENOENT"

\* isMissingError(error), by the code of the error
isMissingError(code) == code = "ENOENT" \/ code = "ENOTDIR"

\* What heartbeat and scanPresence throw for an I/O error with this code.
Thrown(code) ==
    IF isMissingError(code) THEN "PresenceUnavailableError" ELSE code

\* writeJsonAtomic(presenceDir, fileName, entry): the rename puts the file
\* in place of the one of that name, or adds it.  The temporary file ends in
\* .tmp, which no scan looks at.
RECURSIVE writePresenceFile(_, _)
writePresenceFile(entries, file) ==
    IF Len(entries) = 0 THEN <<file>>
    ELSE IF Head(entries).name = file.name THEN <<file>> \o Tail(entries)
    ELSE <<Head(entries)>> \o writePresenceFile(Tail(entries), file)

\* Variant of shouldInclude: an entry as old as the TTL is stale.
shouldIncludeStrictly(mtime, t, ttlSec) == t - mtime < ttlSec * 1000

\* shouldInclude(mtime, now, ttlSec), instants in milliseconds
shouldInclude(mtime, t, ttlSec) == t - mtime <= ttlSec * 1000

\* readUserName(raw)
readUserName(raw) ==
    IF Len(trim(raw)) > 0 THEN trim(raw) ELSE <<"u", "n", "k", "n", "o", "w", "n">>

\* entry.name.toLowerCase().endsWith('.json')
endsWithJson(name) == name.ext \in {".json", ".JSON"}

\* deriveFallbackName(name): name.replace(/\.json$/i, '')
deriveFallbackName(name) ==
    IF endsWithJson(name) THEN name.stem ELSE Append(name.stem, name.ext)

\* readFile or JSON.parse throws, or the parsed value is null.
ParseFails(body) == body.kind \in {"unreadable", "badjson", "null"}

\* Variant of labelOf: an entry without a parsed user name has no label.
labelOfParsedOnly(e) ==
    IF e.body.kind = "json" THEN readUserName(e.body.user) ELSE <<>>

\* label ?? deriveFallbackName(entry.name)
labelOf(e) ==
    IF e.body.kind = "json" THEN readUserName(e.body.user)
    ELSE deriveFallbackName(e.name)

\* The loop of scanPresence over the directory entries: the labels pushed
\* and the names given to onError, in order.
RECURSIVE scanEntries(_, _, _)
scanEntries(entries, t, ttlSec) ==
    IF Len(entries) = 0 THEN [users |-> <<>>, errors |-> <<>>]
    ELSE LET e == Head(entries)
             rest == scanEntries(Tail(entries), t, ttlSec)
         IN IF ~e.isFile \/ ~endsWithJson(e.name) THEN rest
            ELSE IF ~e.statOk
                 THEN [users |-> rest.users, errors |-> <<e.name>> \o rest.errors]
            ELSE IF ~shouldInclude(e.mtime, t, ttlSec) THEN rest
            ELSE [users |-> <<labelOf(e)>> \o rest.users,
                  errors |-> IF ParseFails(e.body) THEN <<e.name>> \o rest.errors
                             ELSE rest.errors]

\* filter((user, index, array) => user.length > 0 && array.indexOf(user) === index)
RECURSIVE firstOccurrences(_, _)
firstOccurrences(users, i) ==
    IF i > Len(users) THEN <<>>
    ELSE (IF Len(users[i]) > 0 /\ \A j \in 1..(i - 1) : users[j] # users[i]
          THEN <<users[i]>> ELSE <<>>) \o firstOccurrences(users, i + 1)

\* The order of the characters in the collation of localeCompare: space and
\* punctuation, digits, letters; a letter and its capital have one place.
Collation == <<" ", "_", "-", "!", ".", "0", "a", "b", "k", "n", "o", "u", "w">>

CharRank(c) ==
    LET lower == IF c = "A" THEN "a" ELSE c
    IN CHOOSE i \in 1..Len(Collation) : Collation[i] = lower

\* a.localeCompare(b, undefined, {sensitivity: 'base'}): -1, 0 or 1
RECURSIVE localeCompare(_, _)
localeCompare(a, b) ==
    IF Len(a) = 0 /\ Len(b) = 0 THEN 0
    ELSE IF Len(a) = 0 THEN 0 - 1
    ELSE IF Len(b) = 0 THEN 1
    ELSE IF CharRank(Head(a)) < CharRank(Head(b)) THEN 0 - 1
    ELSE IF CharRank(Head(a)) > CharRank(Head(b)) THEN 1
    ELSE localeCompare(Tail(a), Tail(b))

RECURSIVE insertUser(_, _)
insertUser(user, sorted) ==
    IF Len(sorted) = 0 THEN <<user>>
    ELSE IF localeCompare(user, Head(sorted)) < 0 THEN <<user>> \o sorted
    ELSE <<Head(sorted)>> \o insertUser(user, Tail(sorted))

\* Array.prototype.sort with localeCompare, which is stable.
RECURSIVE sortUsers(_)
sortUsers(users) ==
    IF Len(users) = 0 THEN <<>>
    ELSE insertUser(users[Len(users)], sortUsers(SubSeq(users, 1, Len(users) - 1)))

\* scanPresence(shareRoot, ttlSec, {now, onError}) over the directory dir
scanPresence(dir, ttlSec, t) ==
    IF dir.err # "none"
    THEN [status |-> Thrown(dir.err), users |-> <<>>, errors |-> <<>>]
    ELSE LET scanned == scanEntries(dir.entries, t, ttlSec)
             trimmed == [i \in 1..Len(scanned.users) |-> trim(scanned.users[i])]
         IN [status |-> "ok",
             users |-> sortUsers(firstOccurrences(trimmed, 1)),
             errors |-> scanned.errors]

\* The user names heartbeat is called with.
UserNames ==
    {<<>>, <<" ">>, <<"!">>, <<"_">>, <<"a">>, <<"A">>, <<"b">>,
     <<" ", "a", " ">>, <<"a", " ", "b">>, <<"a", "!", " ", "b">>,
     <<"_", "a", "_">>, <<"a", ".", "b">>, <<"!", "a", "!">>, <<"!", " ", "_">>}

\* options.now of the heartbeat calls and of the scans, and the TTLs: the
\* smallest presenceTtlSec the configuration accepts and the next one.
HeartbeatTimes == {1}
TtlSecs == {15, 16}
ScanTimes == {15000, 15001, 16000, 16001}

\* Files found in the presence directory that no heartbeat of this run
\* wrote: entries of other users, a body cut short, a file that cannot be
\* read or stat'ed, a temporary file, a subdirectory.
FileName(stem, ext) == [stem |-> stem, ext |-> ext]

PresenceFile(name, mtime, body) ==
    [name |-> name, isFile |-> TRUE, statOk |-> TRUE, mtime |-> mtime, body |-> body]

NoBody(kind) == [kind |-> kind, user |-> <<>>, ts |-> 0]

EntryPool ==
    {PresenceFile(FileName(<<"a">>, ".json"), 0, toPresenceEntry(<<"a">>, 0)),
     PresenceFile(FileName(<<"A">>, ".json"), 1, toPresenceEntry(<<"A">>, 1)),
     PresenceFile(FileName(<<"b">>, ".json"), 0, toPresenceEntry(<<" ", "b", " ">>, 0)),
     PresenceFile(FileName(<<"b", "a">>, ".JSON"), 0, NoBody("badjson")),
     PresenceFile(FileName(<<"a", "b">>, ".json"), 1, NoBody("unreadable")),
     PresenceFile(FileName(<<"b", "b">>, ".json"), 1, NoBody("nouser")),
     PresenceFile(FileName(<<"a", "a">>, ".json"), 0, toPresenceEntry(<<" ">>, 0)),
     [PresenceFile(FileName(<<"b">>, ".json"), 1, toPresenceEntry(<<"b">>, 1))
        EXCEPT !.statOk = FALSE],
     [PresenceFile(FileName(<<"0">>, ".json"), 1, NoBody("nouser"))
        EXCEPT !.isFile = FALSE],
     PresenceFile(FileName(<<"a", ".", "j", "s", "o", "n">>, ".tmp"), 1, NoBody("badjson"))}

PresenceDirs ==
    {[err |-> code, entries |-> <<>>] : code \in {"ENOENT", "ENOTDIR", "EACCES"}}
    \cup {[err |-> "none", entries |-> <<>>]}
    \cup {[err |-> "none", entries |-> <<e>>] : e \in EntryPool}
    \cup {[err |-> "none", entries |-> <<e, f>>] :
            <<e, f>> \in {p \in EntryPool \X EntryPool : p[1].name # p[2].name}}

PresenceInit ==
    /\ RoomFilesInit(EmptyDir) /\ TailerLoaded /\ ScopeIdle(0)
    /\ presence \in PresenceDirs
    /\ presenceOp = NoPresenceOp
    /\ heartbeats = 0

\* heartbeat(shareRoot, user, {now})
Heartbeat ==
    /\ heartbeats < MaxHeartbeats
    /\ heartbeats' = heartbeats + 1
    /\ \E user \in UserNames, t \in HeartbeatTimes :
          LET token == sanitizeUserName(user)
              entry == toPresenceEntry(user, t)
              call == [op |-> "heartbeat", status |-> "ok", user |-> user, now |-> t,
                       ttlSec |-> 0, users |-> <<>>, errors |-> <<>>]
          IN IF ~token.ok
             THEN /\ presenceOp' = [call EXCEPT !.status = ValidationError]
                  /\ presence' = presence
             ELSE IF presence.err # "none"
             THEN /\ presenceOp' = [call EXCEPT !.status = Thrown(presence.err)]
                  /\ presence' = presence
             ELSE /\ presenceOp' = call
                  /\ presence' = [presence EXCEPT !.entries =
                        writePresenceFile(@,
                            PresenceFile(FileName(token.name, ".json"), t, entry))]
    /\ UNCHANGED presenceFrame

\* scanPresence(shareRoot, ttlSec, {now, onError})
ScanPresence ==
    /\ \E ttlSec \in TtlSecs, t \in ScanTimes :
          LET result == scanPresence(presence, ttlSec, t)
          IN presenceOp' = [op |-> "scan", status |-> result.status, user |-> <<>>,
                            now |-> t, ttlSec |-> ttlSec,
                            users |-> result.users, errors |-> result.errors]
    /\ UNCHANGED <<presence, heartbeats>>
    /\ UNCHANGED presenceFrame

PresenceNext ==
    \/ Heartbeat
    \/ ScanPresence

PresenceSpec == PresenceInit /\ [][PresenceNext]_vars

\* ------------------------------------------------ postMessage, validation
\* PostSpec: postMessage called with any text and sender, the room ready.
Texts == {<<>>, <<" ">>, <<" ", " ">>, <<"a">>, <<" ", "a", " ">>}
Senders == {<<>>, <<" ">>, <<"b">>, <<"b", " ">>}

EmptyText == "Error: Message text cannot be empty."
EmptySender == "Error: Sender name cannot be empty."

\* Variant of validatePost: the sender is not looked at.
validatePostTextOnly(text, from) ==
    IF Len(trim(text)) = 0 THEN EmptyText ELSE "ok"

\* The two checks at the head of postMessage: what is thrown, or "ok".
validatePost(text, from) ==
    IF Len(trim(text)) = 0 THEN EmptyText
    ELSE IF Len(trim(from)) = 0 THEN EmptySender
    ELSE "ok"

\* postMessage(room, from, text) up to the call of writeJsonAtomic: a throw
\* of the validation ends the call; otherwise now = new Date(),
\* id = randomBytes(4), and the message is built.
PostMessage(w) ==
    /\ wpc[w] = "idle"
    /\ posts < MaxPosts
    /\ posts' = posts + 1
    /\ \E text \in Texts, from \in Senders :
          LET status == validatePost(text, from) IN
          /\ postCall' = [writer |-> w, text |-> text, from |-> from, status |-> status]
          /\ IF status = "ok"
             THEN /\ \E t \in Times, id \in Ids :
                        /\ t >= wclock[w]
                        /\ wclock' = [wclock EXCEPT ![w] = t]
                        /\ wname' = [wname EXCEPT ![w] = FileNameOf(t, id)]
                        /\ wrec' = [wrec EXCEPT ![w] =
                              [kind |-> "msg", ts |-> t, id |-> id, from |-> w,
                               text |-> posts + 1]]
                  /\ wpc' = [wpc EXCEPT ![w] = "openTmp"]
             ELSE UNCHANGED <<wclock, wname, wrec, wpc>>
    /\ UNCHANGED <<spool, posted>>
    /\ UNCHANGED readerVars
    /\ UNCHANGED postFrame
    /\ UNCHANGED callVars

PostInit == \E dir \in TailDirs : InitWith(dir)

PostNext ==
    \/ \E w \in TailWriters : PostMessage(w)
    \/ \E w \in TailWriters : OpenTmp(w)
    \/ \E w \in TailWriters : FillTmp(w)
    \/ \E w \in TailWriters : Rename(w)

PostSpec == PostInit /\ [][PostNext]_vars

\* ---------------------------------------------------------------- listTail
\* ListSpec: listTail called with any limit on a directory of message files,
\* a temporary file and subdirectories.
callFrame == <<lockVars, compactVars, writerVars, readerVars, scopeVars, presenceVars,
               postVars>>

ListedNames == {<<0, 1>>, <<0, 2>>, <<1, 1>>, <<1, 1, 1>>, <<2, 1>>}
Limits == {0 - 2, 0 - 1, 0, 1, 2, 3, 5, 6}

\* The directories: any of the files, with the subdirectory <<9>> and with
\* or without a second subdirectory whose name sorts among the files.
ListDirs ==
    {[n \in fs \cup ds \cup {SubDir} |->
          IF n \in fs THEN MsgPayload(n) ELSE DirEntry] :
        fs \in SUBSET ListedNames, ds \in {{}, {<<1, 0>>}}}

ListInit == \E dir \in ListDirs : InitWith(dir)

\* listTail(dir, limit)
CallListTail ==
    /\ \E limit \in Limits :
          tailCall' = [done |-> TRUE, limit |-> limit, files |-> listTail(spool, limit)]
    /\ UNCHANGED <<switchCall, roomDirs, availVars, noteVars>>
    /\ UNCHANGED callFrame

ListNext == CallListTail

ListSpec == ListInit /\ [][ListNext]_vars

\* ------------------------------------------ postMessage during processSpool
\* CompactPostSpec: one runCompactLogs command over the room while a user
\* of the room posts.  With one command the lock is always free, so only
\* the acquiring branch of withFileLock is taken.
Compactors == {1}

CompactPostInit == InitWith(EmptyDir)

CompactPostNext ==
    \/ \E p \in Compactors : Call(p)
    \/ \E p \in Compactors : CreateLock(p)
    \/ \E p \in Compactors : WriteLock(p)
    \/ \E p \in Compactors : ListSpool(p)
    \/ \E p \in Compactors : ReadSpoolFile(p)
    \/ \E p \in Compactors : AppendLine(p)
    \/ \E p \in Compactors : UnlinkSpoolFile(p)
    \/ \E p \in Compactors : ReleaseLock(p)
    \/ \E w \in TailWriters : Post(w)
    \/ \E w \in TailWriters : OpenTmp(w)
    \/ \E w \in TailWriters : FillTmp(w)
    \/ \E w \in TailWriters : Rename(w)

CompactPostSpec == CompactPostInit /\ [][CompactPostNext]_vars

\* ------------------------------------- the first poll of a room loaded empty
\* FirstPollSpec: the room was empty when loadInitialTimeline ran, so no
\* cursor is stored; by the time a poll tick fires the other users of the
\* room have posted, and the local user posts too.
FirstPollDirs ==
    {[n \in fs \cup {SubDir} |-> IF n \in fs THEN MsgPayload(n) ELSE DirEntry] :
        fs \in {{}, {<<0, 1>>}, {<<0, 1>>, <<0, 2>>}}}

FirstPollInit == \E dir \in FirstPollDirs : InitWith(dir)

FirstPollNext ==
    \/ \E w \in TailWriters : Post(w)
    \/ \E w \in TailWriters : OpenTmp(w)
    \/ \E w \in TailWriters : FillTmp(w)
    \/ \E w \in TailWriters : Rename(w)
    \/ \E s \in Slots : PollTick(s)
    \/ \E s \in Slots : ListSince(s)
    \/ \E s \in Slots : ReadMessage(s)
    \/ \E s \in Slots : Emit(s)
    \/ \E s \in Slots : UpdateCursor(s)

FirstPollSpec == FirstPollInit /\ [][FirstPollNext]_vars

\* ------------------------------------------------------- handleSendMessage
\* SendSpec: the local user sends from the board view while the poll timer
\* of the room runs.  The room was loaded empty, so no cursor is stored.
\* onSendMessage: fs.rename inside postMessage; with the temporary file in
\* place postMessage returns the message to handleSendMessage, otherwise it
\* throws and handleSendMessage shows the error.
PostReturns(w) ==
    /\ wpc[w] = "rename"
    /\ LET tmp == createTempName(wname[w], w) IN
       IF tmp \in DOMAIN spool
       THEN /\ spool' = RenameEntry(spool, tmp, wname[w])
            /\ posted' = posted \cup {wrec[w]}
            /\ wpc' = [wpc EXCEPT ![w] = "send"]
            /\ wrec' = wrec
       ELSE /\ UNCHANGED <<spool, posted>>
            /\ wpc' = [wpc EXCEPT ![w] = "idle"]
            /\ wrec' = [wrec EXCEPT ![w] = NoPayload]
    /\ wname' = [wname EXCEPT ![w] = <<>>]
    /\ UNCHANGED <<wclock, posts>>
    /\ UNCHANGED readerVars
    /\ UNCHANGED compactFrame

\* handleSendMessage: postMessage({type: 'send', message}) to the webview,
\* whose listener calls appendMessage(data.message).
SendToView(w) ==
    /\ wpc[w] = "send"
    /\ lastEvent' = ViewEvent("send", 1, <<wrec[w]>>)
    /\ wpc' = [wpc EXCEPT ![w] = "idle"]
    /\ wrec' = [wrec EXCEPT ![w] = NoPayload]
    /\ UNCHANGED <<spool, wname, wclock, posts, posted>>
    /\ UNCHANGED <<cursor, cursorChain, rpc, since, chain, newer, sidx, msgs, delivered,
                   partialReads, skippedNames, loadVars>>
    /\ UNCHANGED compactFrame

SendInit == InitWith(EmptyDir)

SendNext ==
    \/ \E w \in TailWriters : Post(w)
    \/ \E w \in TailWriters : OpenTmp(w)
    \/ \E w \in TailWriters : FillTmp(w)
    \/ \E w \in TailWriters : PostReturns(w)
    \/ \E w \in TailWriters : SendToView(w)
    \/ \E s \in Slots : PollTick(s)
    \/ \E s \in Slots : ListSince(s)
    \/ \E s \in Slots : ReadMessage(s)
    \/ \E s \in Slots : Emit(s)
    \/ \E s \in Slots : UpdateCursor(s)

SendSpec == SendInit /\ [][SendNext]_vars

\* -------------------------------------- trySetActiveRoom, room not ready
\* SwitchSpec: the active room is polled and posted to while the user asks
\* for rooms that are not provisioned.
switchFrame == <<lockVars, compactVars, writerVars, readerVars, scopeVars, presenceVars,
                 postVars, tailCall, availVars, noteVars>>

\* ensureRoomReady(room, shareRoot): fs.access on the room folder and on
\* each required subfolder; TRUE when none is missing.
ensureRoomReady(room, dirs) == room \in dirs

\* trySetActiveRoom(room) for a room other than the active one: the call
\* awaits ensureRoomReady.
CheckRoom ==
    /\ switchCall.status # "checking"
    /\ \E room \in Rooms \ {activeRoom} :
          /\ ~ensureRoomReady(room, roomDirs)
          /\ switchCall' = [room |-> room, status |-> "checking"]
    /\ UNCHANGED roomDirs
    /\ UNCHANGED switchFrame

\* Variant of RoomNotReady: stopPolling() runs before the readiness check,
\* so the rejected call leaves the timer cleared.
RoomNotReadyTimerStopped ==
    /\ switchCall.status = "checking"
    /\ ~ensureRoomReady(switchCall.room, roomDirs)
    /\ switchCall' = [switchCall EXCEPT !.status = "rejected"]
    /\ polling' = FALSE
    /\ UNCHANGED roomDirs
    /\ UNCHANGED <<lockVars, compactVars, writerVars, scopeVars, presenceVars, postVars,
                   tailCall, availVars, noteVars>>
    /\ UNCHANGED <<cursor, cursorChain, rpc, since, chain, newer, sidx, msgs, delivered,
                   partialReads, skippedNames, lastEvent>>
    /\ UNCHANGED <<activeRoom, ipc, recent, ridx, rmsgs, switches>>

\* ensureRoomReady threw RoomNotReadyError: handleRoomError logs it and
\* shows the toast, trySetActiveRoom returns false.
RoomNotReady ==
    /\ switchCall.status = "checking"
    /\ ~ensureRoomReady(switchCall.room, roomDirs)
    /\ switchCall' = [switchCall EXCEPT !.status = "rejected"]
    /\ UNCHANGED roomDirs
    /\ UNCHANGED switchFrame

SwitchInit == \E dir \in TailDirs : InitWith(dir)

SwitchNext ==
    \/ CheckRoom
    \/ RoomNotReady
    \/ \E s \in Slots : PollTick(s)
    \/ \E s \in Slots : ListSince(s)
    \/ \E s \in Slots : ReadMessage(s)
    \/ \E s \in Slots : Emit(s)
    \/ \E s \in Slots : UpdateCursor(s)
    \/ \E w \in TailWriters : Post(w)
    \/ \E w \in TailWriters : OpenTmp(w)
    \/ \E w \in TailWriters : FillTmp(w)
    \/ \E w \in TailWriters : Rename(w)

SwitchSpec == SwitchInit /\ [][SwitchNext]_vars

\* ---------------------------------------------- updatePresenceAvailability
\* AvailabilitySpec: the heartbeat and scan timers of the extension over a
\* presence folder that comes and goes (a share that drops out, a folder
\* the administrator removes and puts back).
availFrame == <<lockVars, compactVars, writerVars, readerVars, scopeVars, postVars,
                tailCall, switchCall, roomDirs, noteVars, presenceOp, heartbeats>>

\* getEffectiveUserName(config), the least presenceTtlSec readConfig accepts,
\* and the clock of the calls: one time-to-live after the epoch, in ms.
LocalUser == <<"b">>
PresenceTtlSec == 15
ScanNow == PresenceTtlSec * 1000

\* The folder with the heartbeat file of one other user, and without.
OthersEntries ==
    <<PresenceFile(FileName(<<"a">>, ".json"), 0, toPresenceEntry(<<"a">>, 0))>>
PresenceGone == [err |-> "ENOENT", entries |-> <<>>]

\* checkPresenceRoot: pathExists(presenceRoot)
checkPresenceRoot(dir) == dir.err \notin {"ENOENT"}

\* pushPresenceUsers(users): nothing when the list equals the last one
\* pushed, else lastPresenceUsers = users and view.updatePresence(users).
pushPresenceUsers(users) ==
    /\ lastPresenceUsers' = users
    /\ viewUsers' = IF users = lastPresenceUsers THEN viewUsers ELSE users

\* updatePresenceAvailability(enabled), called while beats heartbeat calls
\* and scans scan calls are in flight.  Enabled: startPresenceTimers sets
\* the timers that are not set and runs one heartbeat and one scan at once.
\* Disabled: stopPresenceTimers and pushPresenceUsers([]).
updatePresenceAvailability(enabled, beats, scans) ==
    /\ presenceAvailable' = enabled
    /\ IF enabled
       THEN /\ presenceTimers' = TRUE
            /\ beatRun' = IF presenceTimers THEN beats ELSE beats + 1
            /\ scanRun' = IF presenceTimers THEN scans ELSE scans + 1
            /\ UNCHANGED <<lastPresenceUsers, viewUsers>>
       ELSE /\ presenceTimers' = FALSE
            /\ beatRun' = beats
            /\ scanRun' = scans
            /\ pushPresenceUsers(<<>>)

\* The presence folder goes away, and comes back with the file of the
\* other user.
RootLost ==
    /\ presence.err = "none"
    /\ presence' = PresenceGone
    /\ UNCHANGED availVars
    /\ UNCHANGED availFrame

RootBack ==
    /\ presence.err # "none"
    /\ presence' = [err |-> "none", entries |-> OthersEntries]
    /\ UNCHANGED availVars
    /\ UNCHANGED availFrame

\* activate, raBoard.openTimeline and raBoard.switchRoom:
\* updatePresenceAvailability(await checkPresenceRoot(shareRoot))
RecheckPresence ==
    /\ beatRun < MaxInFlight /\ scanRun < MaxInFlight
    /\ updatePresenceAvailability(checkPresenceRoot(presence), beatRun, scanRun)
    /\ UNCHANGED presence
    /\ UNCHANGED availFrame

\* The heartbeat timer fires: runHeartbeatOnce returns at once when
\* presence is not available, else it calls writePresenceHeartbeat.
HeartbeatTick ==
    /\ presenceTimers
    /\ presenceAvailable
    /\ beatRun < MaxInFlight
    /\ beatRun' = beatRun + 1
    /\ UNCHANGED <<presenceAvailable, presenceTimers, scanRun, lastPresenceUsers, viewUsers>>
    /\ UNCHANGED presence
    /\ UNCHANGED availFrame

\* The scan timer fires: runPresenceScanOnce, likewise.
ScanTick ==
    /\ presenceTimers
    /\ presenceAvailable
    /\ scanRun < MaxInFlight
    /\ scanRun' = scanRun + 1
    /\ UNCHANGED <<presenceAvailable, presenceTimers, beatRun, lastPresenceUsers, viewUsers>>
    /\ UNCHANGED presence
    /\ UNCHANGED availFrame

\* writePresenceHeartbeat settles: the file is written, or the error goes
\* to handlePresenceError, which for PresenceUnavailableError checks the
\* root again and updates the availability.
HeartbeatSettles ==
    /\ beatRun > 0
    /\ IF presence.err = "none"
       THEN /\ presence' = [presence EXCEPT !.entries =
                   writePresenceFile(@,
                       PresenceFile(FileName(sanitizeUserName(LocalUser).name, ".json"), 1,
                                    toPresenceEntry(LocalUser, 1)))]
            /\ beatRun' = beatRun - 1
            /\ UNCHANGED <<presenceAvailable, presenceTimers, scanRun, lastPresenceUsers,
                           viewUsers>>
       ELSE /\ presence' = presence
            /\ IF Thrown(presence.err) = "PresenceUnavailableError"
               THEN updatePresenceAvailability(checkPresenceRoot(presence),
                                               beatRun - 1, scanRun)
               ELSE /\ beatRun' = beatRun - 1
                    /\ UNCHANGED <<presenceAvailable, presenceTimers, scanRun,
                                   lastPresenceUsers, viewUsers>>
    /\ UNCHANGED availFrame

\* scanPresence settles: pushPresenceUsers(users), or handlePresenceError.
ScanSettles ==
    /\ scanRun > 0
    /\ LET result == scanPresence(presence, PresenceTtlSec, ScanNow) IN
       IF result.status = "ok"
       THEN /\ scanRun' = scanRun - 1
            /\ pushPresenceUsers(result.users)
            /\ UNCHANGED <<presenceAvailable, presenceTimers, beatRun>>
       ELSE IF result.status = "PresenceUnavailableError"
       THEN updatePresenceAvailability(checkPresenceRoot(presence), beatRun, scanRun - 1)
       ELSE /\ scanRun' = scanRun - 1
            /\ UNCHANGED <<presenceAvailable, presenceTimers, beatRun, lastPresenceUsers,
                           viewUsers>>
    /\ UNCHANGED presence
    /\ UNCHANGED availFrame

AvailabilityInit ==
    /\ RoomFilesInit(EmptyDir) /\ TailerLoaded /\ ScopeIdle(0)
    /\ presence \in {PresenceGone, [err |-> "none", entries |-> OthersEntries]}
    /\ presenceOp = NoPresenceOp
    /\ heartbeats = 0

AvailabilityNext ==
    \/ RootLost
    \/ RootBack
    \/ RecheckPresence
    \/ HeartbeatTick
    \/ ScanTick
    \/ HeartbeatSettles
    \/ ScanSettles

AvailabilitySpec == AvailabilityInit /\ [][AvailabilityNext]_vars

\* ------------------------------------------------------ NotificationMonitor
\* NotifySpec: the notification monitor over the room of spool, with the
\* tailer switching away from the room and back, polling it, and one post.
\* notifications.enabled is true, notifications.rooms names the room.
includeActiveRoom == FALSE

noteFrame == <<lockVars, compactVars, writerVars, readerVars, scopeVars, presenceVars,
               postVars, tailCall, switchCall, roomDirs, availVars>>

\* Variant of scan: the check of scanPromise is left out, so every call
\* starts a pass of its own.
scanUncoalesced ==
    IF disposed
    THEN /\ scanRequest' = "refused"
         /\ UNCHANGED <<scanPromise, npc>>
    ELSE /\ \E k \in Passes :
              /\ npc[k] = "idle"
              /\ \A other \in Passes : other < k => npc[other] # "idle"
              /\ npc' = [npc EXCEPT ![k] = "rooms"]
         /\ scanPromise' = TRUE
         /\ scanRequest' = "started"

\* scan(): nothing once disposed; the promise of the pass that is running,
\* if one is; else doScan(config) is called, which runs up to its first
\* await, and its promise is kept in scanPromise.
scan ==
    IF disposed
    THEN /\ scanRequest' = "refused"
         /\ UNCHANGED <<scanPromise, npc>>
    ELSE IF scanPromise
    THEN /\ scanRequest' = "joined"
         /\ UNCHANGED <<scanPromise, npc>>
    ELSE /\ \E k \in Passes :
              /\ npc[k] = "idle"
              /\ \A other \in Passes : other < k => npc[other] # "idle"
              /\ npc' = [npc EXCEPT ![k] = "rooms"]
         /\ scanPromise' = TRUE
         /\ scanRequest' = "started"

\* start(), called at the end of activate: the interval is set and scan()
\* is called once.
StartMonitor ==
    /\ ~noteTimer
    /\ ~disposed
    /\ noteTimer' = TRUE
    /\ scan
    /\ UNCHANGED <<unreadCounts, latestObserved, disposed, nbase>>
    /\ UNCHANGED noteFrame

\* The interval fires: void this.scan()
TimerScan ==
    /\ noteTimer
    /\ scan
    /\ UNCHANGED <<unreadCounts, latestObserved, noteTimer, disposed, nbase>>
    /\ UNCHANGED noteFrame

\* dispose(), from deactivate
Dispose ==
    /\ ~disposed
    /\ disposed' = TRUE
    /\ noteTimer' = FALSE
    /\ UNCHANGED <<unreadCounts, latestObserved, scanPromise, npc, nbase, scanRequest>>
    /\ UNCHANGED noteFrame

\* doScan: resolveTargetRooms returned.  The room is passed over when it is
\* the active one; else the pass awaits isRoomReady.
ResolveRooms(k) ==
    /\ npc[k] = "rooms"
    /\ npc' = [npc EXCEPT ![k] =
           IF ~includeActiveRoom /\ activeRoom = 1 THEN "publish" ELSE "ready"]
    /\ UNCHANGED <<unreadCounts, latestObserved, noteTimer, disposed, scanPromise, nbase,
                   scanRequest>>
    /\ UNCHANGED noteFrame

\* doScan: isRoomReady returned; scanRoom runs up to its await.  baseline
\* is the greater of lastSeen and latestObserved.
RoomChecked(k) ==
    /\ npc[k] = "ready"
    /\ IF ~ensureRoomReady(1, roomDirs)
       THEN /\ unreadCounts' = [unreadCounts EXCEPT ![1] = 0]
            /\ latestObserved' = [latestObserved EXCEPT ![1] = <<>>]
            /\ npc' = [npc EXCEPT ![k] = "publish"]
            /\ nbase' = nbase
       ELSE LET observed == latestObserved[1]
                baseline == IF cursor # <<>> /\ (observed = <<>> \/ NameLess(observed, cursor))
                            THEN cursor ELSE observed
            IN /\ nbase' = [nbase EXCEPT ![k] = baseline]
               /\ npc' = [npc EXCEPT ![k] = IF baseline = <<>> THEN "latest" ELSE "list"]
               /\ UNCHANGED <<unreadCounts, latestObserved>>
    /\ UNCHANGED <<noteTimer, disposed, scanPromise, scanRequest>>
    /\ UNCHANGED noteFrame

\* scanRoom without a baseline: readLatestMessageName(msgsDir) returned.
LatestRead(k) ==
    /\ npc[k] = "latest"
    /\ LET tail == listTail(spool, 1) IN
       latestObserved' = IF Len(tail) > 0
                         THEN [latestObserved EXCEPT ![1] = tail[Len(tail)]]
                         ELSE latestObserved
    /\ npc' = [npc EXCEPT ![k] = "publish"]
    /\ UNCHANGED <<unreadCounts, noteTimer, disposed, scanPromise, nbase, scanRequest>>
    /\ UNCHANGED noteFrame

\* scanRoom: listSince(msgsDir, baseline) returned; the files are added to
\* the count of the room.
RoomListed(k) ==
    /\ npc[k] = "list"
    /\ LET listed == listSince(spool, nbase[k]) IN
       IF Len(listed) = 0
       THEN UNCHANGED <<unreadCounts, latestObserved>>
       ELSE /\ latestObserved' = [latestObserved EXCEPT ![1] = listed[Len(listed)]]
            /\ unreadCounts' = [unreadCounts EXCEPT ![1] = @ + Len(listed)]
    /\ npc' = [npc EXCEPT ![k] = "publish"]
    /\ nbase' = [nbase EXCEPT ![k] = <<>>]
    /\ UNCHANGED <<noteTimer, disposed, scanPromise, scanRequest>>
    /\ UNCHANGED noteFrame

\* doScan: publishIndicators and the toast are done; finally clears
\* scanPromise.
PassSettles(k) ==
    /\ npc[k] = "publish"
    /\ npc' = [npc EXCEPT ![k] = "idle"]
    /\ scanPromise' = FALSE
    /\ UNCHANGED <<unreadCounts, latestObserved, noteTimer, disposed, nbase, scanRequest>>
    /\ UNCHANGED noteFrame

NotifyInit == \E dir \in TailDirs : InitWith(dir)

NotifyNext ==
    \/ StartMonitor
    \/ TimerScan
    \/ Dispose
    \/ \E k \in Passes : ResolveRooms(k)
    \/ \E k \in Passes : RoomChecked(k)
    \/ \E k \in Passes : LatestRead(k)
    \/ \E k \in Passes : RoomListed(k)
    \/ \E k \in Passes : PassSettles(k)
    \/ SetActiveRoom
    \/ SwitchAway
    \/ ListTail
    \/ ReadRecent
    \/ EmitReset
    \/ FinishInitialLoad
    \/ \E s \in Slots : PollTick(s)
    \/ \E s \in Slots : ListSince(s)
    \/ \E s \in Slots : ReadMessage(s)
    \/ \E s \in Slots : Emit(s)
    \/ \E s \in Slots : UpdateCursor(s)
    \/ PostsWhilePolling
    \/ \E w \in TailWriters : OpenTmp(w)
    \/ \E w \in TailWriters : FillTmp(w)
    \/ \E w \in TailWriters : Rename(w)

NotifySpec == NotifyInit /\ [][NotifyNext]_vars

\* ScanSpec: the monitor by itself, with the room switched away from and
\* back to, and nothing posted.
ScanNext ==
    \/ StartMonitor
    \/ TimerScan
    \/ Dispose
    \/ \E k \in Passes : ResolveRooms(k)
    \/ \E k \in Passes : RoomChecked(k)
    \/ \E k \in Passes : LatestRead(k)
    \/ \E k \in Passes : RoomListed(k)
    \/ \E k \in Passes : PassSettles(k)
    \/ SetActiveRoom
    \/ SwitchAway
    \/ ListTail
    \/ ReadRecent
    \/ EmitReset
    \/ FinishInitialLoad

ScanSpec == NotifyInit /\ [][ScanNext]_vars

\* ------------------------------------------------------------ resolveScope
\* ScopeSpec: the cutoff of each policy, for the instants at which the
\* command may run and the dates that may be typed in.
roomFrame == <<lockVars, compactVars, writerVars, readerVars, presenceVars, postVars,
               callVars>>

\* The instants of the window: around the turn of each UTC day and of each
\* UTC+9 day (15:00 UTC), from 1970-02-25 on.
Hours ==
    {h \in DateUTC(1970, 1, 25)..(DateUTC(1970, 1, 25) + MaxHours) :
        h % DAY \in {0, 8, 14, 15, 16, 23}}

\* Texts for the input box: dates, texts of the right shape that are no
\* calendar date, and a text of the wrong shape.
DateInputs ==
    {<<1970, 2, 27>>, <<1970, 2, 28>>, <<1970, 2, 29>>, <<1970, 3, 1>>, <<1970, 3, 2>>,
     <<1970, 0, 10>>, <<1970, 13, 1>>, <<1970, 3, 32>>, Malformed}

ScopeInit == RoomInit(EmptyDir) /\ \E h \in Hours : ScopeIdle(h)

\* choice === PRESET_LAST_WEEK
ResolveLastWeek ==
    /\ preset = "none"
    /\ preset' = "lastWeek"
    /\ scope' = [ok |-> TRUE, cutoffMs |-> startOfJstWeekMs(clock)]
    /\ UNCHANGED <<clock, dateInput>>
    /\ UNCHANGED roomFrame

\* choice === PRESET_EXCLUDE_TODAY
ResolveExcludeToday ==
    /\ preset = "none"
    /\ preset' = "excludeToday"
    /\ scope' = [ok |-> TRUE, cutoffMs |-> startOfJstDayMs(clock)]
    /\ UNCHANGED <<clock, dateInput>>
    /\ UNCHANGED roomFrame

\* PRESET_UNTIL_DATE: the text of the input box goes through
\* computeCutoffForDateInput; undefined ends the command.
ResolveUntilDate(input) ==
    /\ preset = "none"
    /\ preset' = "untilDate"
    /\ dateInput' = input
    /\ scope' = computeCutoffForDateInput(input)
    /\ UNCHANGED clock
    /\ UNCHANGED roomFrame

ScopeNext ==
    \/ ResolveLastWeek
    \/ ResolveExcludeToday
    \/ \E input \in DateInputs : ResolveUntilDate(input)

ScopeSpec == ScopeInit /\ [][ScopeNext]_vars

\* ------------------------------------------------------------ properties
InFn(p) == pc[p] \in {"fn", "readFile", "append", "unlinkSpool"}
Started(p) == pc[p] \notin {"idle", "dead"}
WithinTtl == \A p \in Procs : Started(p) => now < meta[p]

RECURSIVE CountIn(_, _)
CountIn(line, s) ==
    IF Len(s) = 0 THEN 0
    ELSE (IF Head(s) = line THEN 1 ELSE 0) + CountIn(line, Tail(s))

RECURSIVE SumOver(_, _)
SumOver(line, D) ==
    IF D = {} THEN 0
    ELSE LET d == CHOOSE x \in D : TRUE
         IN CountIn(line, logs[d]) + SumOver(line, D \ {d})

\* Number of lines of the day logs that hold the record of spool name n.
LogCount(n) == SumOver(initial[n], DOMAIN logs)
NameInHand(p) == files[p][idx[p]]

\* C1: while the TTL of neither call has run out, two withFileLock calls on
\* the same lock path are never both inside fn.
C1_MutualExclusion ==
    \A p, q \in Procs : (p # q /\ WithinTtl) => ~(InFn(p) /\ InFn(q))

\* C2: every record of the spool as it was before the run is, at every step
\* (kills included), in the spool or in a day log, and a step that removes a
\* spool file finds its line in a day log already.
C2_NoRecordLost ==
    /\ [](\A n \in DOMAIN initial : n \in DOMAIN spool \/ LogCount(n) >= 1)
    /\ [][\A n \in DOMAIN spool :
            n \notin DOMAIN spool' => LogCount(n) >= 1]_vars

C2_Witness ==
    \E n \in DOMAIN initial, p \in Procs :
        /\ n \notin DOMAIN spool
        /\ LogCount(n) = 1
        /\ pc[p] = "done"
        /\ crashes > 0

\* C7: two compaction runs of one room, neither killed, nor outliving its
\* TTL, nor hit by an I/O failure, never both append the same spool file to
\* a day log, and no spool file disappears while a run holds it between its
\* read and its delete.
C7_NoDoubleProcessing ==
    (crashes = 0 /\ ioFailures = 0 /\ WithinTtl) =>
        /\ \A n \in DOMAIN initial : LogCount(n) <= 1
        /\ \A p \in Procs :
              pc[p] \in {"append", "unlinkSpool"} => NameInHand(p) \in DOMAIN spool

\* A run that went through the whole listing without an I/O failure.
CompleteRun(p) == pc[p] = "done" /\ outcome[p] = "returned" /\ ~ioFailed[p]
Due(n, c) == Classify(initial[n], c) = "due"

\* C8: a record whose run was killed between append and delete is never
\* absent from both the spool and the logs; once a later run under which it
\* is due has completed, it is out of the spool and in the log, appended at
\* most once per run.
C8_CrashThenRerun ==
    \A n \in crashedMid :
        /\ LogCount(n) >= 1
        /\ LogCount(n) <= Cardinality(Procs)
        /\ \A p \in Procs :
              (CompleteRun(p) /\ Due(n, cutoff[p])) => n \notin DOMAIN spool

C8_Witness ==
    \E n \in crashedMid, p \in Procs :
        /\ CompleteRun(p)
        /\ Due(n, cutoff[p])
        /\ LogCount(n) = 2
        /\ n \notin DOMAIN spool

Held == lock.present /\ lock.written /\ now < lock.expiresAt

C12_HeldLockRefuses ==
    /\ [][\A p \in Procs :
             (pc[p] = "read" /\ pc'[p] \notin {"read", "dead"} /\ Held) =>
                 /\ pc'[p] = "failed"
                 /\ outcome'[p] = "unavailable"
                 /\ existing'[p].expiresAt = lock.expiresAt
                 /\ existing'[p].detail = DetailOf(lock.owner)
                 /\ lock' = lock
                 /\ spool' = spool
                 /\ logs' = logs]_vars
    /\ [](\A p \in Procs :
             pc[p] = "failed" =>
                 /\ summary[p] = NoSummary
                 /\ files[p] = <<>>
                 /\ cur[p] = NoCur)
    /\ [][\A p \in Procs :
             (pc[p] \in {"idle", "create", "read", "unlink"} /\ pc'[p] # pc[p]) =>
                 (spool' = spool /\ logs' = logs)]_vars

\* A compaction was refused while the holder was in the middle of its run,
\* and the holder then went on to move a record.
C12_Witness ==
    \E p, q \in Procs :
        /\ pc[p] = "failed"
        /\ outcome[p] = "unavailable"
        /\ existing[p].detail = DetailOf(q)
        /\ lock.present /\ lock.owner = q /\ lock.expiresAt = existing[p].expiresAt
        /\ summary[q].appended >= 1

\* The spool files of the initial spool whose ts lies in day d of the
\* reference zone: [d * 24h - 9h, (d + 1) * 24h - 9h).
OnDay(d) ==
    {n \in FileNames(initial) :
        /\ initial[n].kind = "msg"
        /\ d * DAY - JST_OFFSET <= initial[n].ts
        /\ initial[n].ts < (d + 1) * DAY - JST_OFFSET}

\* No other run has entered processSpool.
AloneRun(p) == \A q \in Procs \ {p} : pc[q] \in {"idle", "failed"}

\* C14: when every spool file holds a valid record, the records lie on
\* several days and the cutoff is later than all of them, a run that is alone
\* and meets no failure returns appended = N and skipped = 0, leaves no file
\* in the spool, and every day log holds exactly the records of its day, one
\* line each.
C14_RoundTrip ==
    \A p \in Procs :
        ( /\ CompleteRun(p) /\ AloneRun(p)
          /\ crashes = 0 /\ ioFailures = 0
          /\ \A n \in FileNames(initial) :
                initial[n].kind = "msg" /\ initial[n].ts < cutoff[p] ) =>
            /\ summary[p].appended = Cardinality(FileNames(initial))
            /\ summary[p].considered = Cardinality(FileNames(initial))
            /\ summary[p].skipped = 0
            /\ FileNames(spool) = {}
            /\ \A d \in DOMAIN logs :
                  /\ Len(logs[d]) = Cardinality(OnDay(d))
                  /\ Range(logs[d]) = {initial[n] : n \in OnDay(d)}
            /\ summary[p].days = {d \in DOMAIN logs : OnDay(d) # {}}

C14_Witness ==
    \E p \in Procs :
        /\ CompleteRun(p) /\ AloneRun(p)
        /\ crashes = 0 /\ ioFailures = 0
        /\ summary[p].appended = 2
        /\ Cardinality({d \in DOMAIN logs : Len(logs[d]) = 1}) = 2
        /\ FileNames(spool) = {}

\* C15: in a run that is alone and meets no I/O failure, skipped ends as the
\* number of spool files that are not valid JSON or hold no parsable ts
\* (missing, not a string, or a string that is not a date), and the records
\* at or after the cutoff count nowhere: considered and appended end as the
\* number of due records.
C15_SkippedCountsUnparsable ==
    \A p \in Procs :
        (CompleteRun(p) /\ AloneRun(p) /\ crashes = 0 /\ ioFailures = 0) =>
            /\ summary[p].skipped =
                  Cardinality({n \in FileNames(initial) :
                                  initial[n].kind \in {"badjson", "nots", "badts"}})
            /\ summary[p].considered =
                  Cardinality({n \in FileNames(initial) :
                                  initial[n].kind = "msg" /\ initial[n].ts < cutoff[p]})
            /\ summary[p].appended = summary[p].considered

\* The step is taken by run p.
Acts(p) == pc'[p] # pc[p] \/ summary'[p] # summary[p] \/ idx'[p] # idx[p]

DueAt(t) == t < scope.cutoffMs
\* Date text a is on or before date text b.
OnOrBefore(a, b) == ~NameLess(b, a)

\* C18: the cutoff every policy resolves to is the start of a day of UTC+9,
\* the zone of the date keys: records with the same date key are both due or
\* both not; under "until date D" a record is due exactly when its date key
\* is on or before D; under the two relative policies no record with the
\* date key of the current instant is due.
C18_CutoffOnDayBoundary ==
    (preset # "none" /\ scope.ok) =>
        /\ (scope.cutoffMs + JST_OFFSET) % DAY = 0
        /\ \A t1, t2 \in Hours :
              jstDateText(t1) = jstDateText(t2) => (DueAt(t1) <=> DueAt(t2))
        /\ \A t \in Hours : jstDateText(t) = CivilFromDays(jstDateKey(t))
        /\ preset = "untilDate" =>
              \A t \in Hours : DueAt(t) <=> OnOrBefore(jstDateText(t), dateInput)
        /\ preset \in {"lastWeek", "excludeToday"} =>
              \A t \in Hours : jstDateText(t) = jstDateText(clock) => ~DueAt(t)

\* "Until 1970-02-28" is resolved: the record of 23:00 that day (UTC+9) is
\* due, the record of the next midnight is not.
C18_Witness ==
    /\ preset = "untilDate" /\ scope.ok
    /\ dateInput = <<1970, 2, 28>>
    /\ \E t \in Hours : jstDateText(t) = <<1970, 2, 28>> /\ DueAt(t) /\ ~DueAt(t + 1)

\* The last call was a scan that returned a list.
Scanned == presenceOp.op = "scan" /\ presenceOp.status = "ok"

\* The entries a scan looks into: regular files named *.json whose stat
\* succeeds.
Eligible == {e \in Range(presence.entries) :
                e.isFile /\ e.name.ext \in {".json", ".JSON"} /\ e.statOk}

\* now minus the modification time, for the scan last run
AgeOf(e) == presenceOp.now - e.mtime

\* The name an entry is shown under: the user of its body without the
\* surrounding blanks ("unknown" when nothing is left), or the file name
\* without its extension when the body gives none.
ShownName(e) ==
    IF e.body.kind = "json"
    THEN IF Len(trim(e.body.user)) > 0 THEN trim(e.body.user)
         ELSE <<"u", "n", "k", "n", "o", "w", "n">>
    ELSE trim(e.name.stem)

\* C25: the list of a scan holds the names of exactly the entries whose age,
\* now minus the modification time, is at most ttlSec seconds.
C25_IncludedUpToTtl ==
    Scanned =>
        Range(presenceOp.users) =
            {ShownName(e) : e \in {f \in Eligible :
                                      AgeOf(f) <= presenceOp.ttlSec * 1000}} \ {<<>>}

\* A scan met an entry exactly as old as the TTL, which it lists, and one a
\* millisecond older, which it leaves out.
C25_Witness ==
    /\ Scanned
    /\ \E e, f \in Eligible :
          /\ AgeOf(e) = presenceOp.ttlSec * 1000
          /\ ShownName(e) \in Range(presenceOp.users)
          /\ AgeOf(f) = presenceOp.ttlSec * 1000 + 1
          /\ ShownName(f) \notin Range(presenceOp.users)

\* C26: the list of a scan is sorted and no two of its names are equal when
\* compared without regard to case.
C26_SortedCaseInsensitiveUnique ==
    Scanned =>
        \A i, j \in 1..Len(presenceOp.users) :
            i < j =>
                /\ localeCompare(presenceOp.users[i], presenceOp.users[j]) <= 0
                /\ toLowerCase(presenceOp.users[i]) # toLowerCase(presenceOp.users[j])

\* The *.json files of the directory whose stat fails, and the fresh ones
\* whose body cannot be read or parsed.
StatFailed == {e \in Range(presence.entries) :
                  e.isFile /\ e.name.ext \in {".json", ".JSON"} /\ ~e.statOk}

Fresh == {e \in Eligible : AgeOf(e) <= presenceOp.ttlSec * 1000}

Unparsable == {e \in Fresh : e.body.kind \in {"unreadable", "badjson", "null"}}

\* How often name was given to onError by the scan last run.
Reports(name) ==
    Cardinality({i \in 1..Len(presenceOp.errors) : presenceOp.errors[i] = name})

\* C27: a scan of a directory that can be listed returns a list whatever
\* its entries are: an entry whose stat fails is reported once and adds no
\* name; a fresh entry whose body cannot be read or parsed is reported once
\* and is listed under its file name without the extension; no other entry
\* is reported, and the names of the other fresh entries are listed.
C27_EntryFailuresStayLocal ==
    (presenceOp.op = "scan" /\ presence.err = "none") =>
        /\ presenceOp.status = "ok"
        /\ \A e \in StatFailed \cup Unparsable : Reports(e.name) = 1
        /\ Range(presenceOp.errors) = {e.name : e \in StatFailed \cup Unparsable}
        /\ \A e \in Unparsable :
              Len(trim(e.name.stem)) > 0 => trim(e.name.stem) \in Range(presenceOp.users)
        /\ Range(presenceOp.users) = {ShownName(e) : e \in Fresh} \ {<<>>}

\* A scan met an entry whose stat fails next to a fresh one whose body is
\* not JSON.
C27_Witness ==
    /\ presenceOp.op = "scan"
    /\ presenceOp.status = "ok"
    /\ StatFailed # {}
    /\ Unparsable # {}
    /\ Len(presenceOp.errors) = 2
    /\ Len(presenceOp.users) = 1

\* C28: heartbeat (with a name that passes the sanitization) and scanPresence
\* end with PresenceUnavailableError when the presence directory is missing,
\* ENOENT or ENOTDIR, and with the I/O error itself for any other failure.
C28_MissingDirIsUnavailable ==
    (presenceOp.op = "scan"
        \/ (presenceOp.op = "heartbeat" /\ presenceOp.status # ValidationError)) =>
        /\ presence.err \in {"ENOENT", "ENOTDIR"}
              => presenceOp.status = "PresenceUnavailableError"
        /\ presence.err \notin {"ENOENT", "ENOTDIR", "none"}
              => presenceOp.status = presence.err
        /\ presence.err = "none" => presenceOp.status = "ok"

\* A heartbeat met ENOTDIR and reported the directory as unavailable.
C28_Witness ==
    /\ presenceOp.op = "heartbeat"
    /\ presence.err = "ENOTDIR"
    /\ presenceOp.status = "PresenceUnavailableError"

\* The letters, digits, dots and hyphens of a name, in order.
RECURSIVE Kept(_)
Kept(s) ==
    IF Len(s) = 0 THEN <<>>
    ELSE (IF IsNameChar(Head(s)) /\ Head(s) # "_" THEN <<Head(s)>> ELSE <<>>)
         \o Kept(Tail(s))

\* C29: a heartbeat whose user name keeps no character through the
\* sanitization is rejected with the validation error and leaves the
\* directory as it was; any other heartbeat that ends well has put the entry
\* {user, ts: now} into <token>.json, where the token is made of letters,
\* digits, '.', '_' and '-' only and carries the kept characters of the user
\* name in order, and has touched no other file.
C29_HeartbeatWritesSanitized ==
    [][heartbeats' # heartbeats =>
          LET user == presenceOp'.user
              written == {e \in Range(presence'.entries) :
                             /\ e.body = [kind |-> "json", user |-> user,
                                          ts |-> presenceOp'.now]
                             /\ e.name.ext = ".json"
                             /\ e.isFile
                             /\ \A i \in 1..Len(e.name.stem) : IsNameChar(e.name.stem[i])
                             /\ Kept(e.name.stem) = Kept(user)}
          IN /\ presenceOp'.op = "heartbeat"
             /\ Kept(user) = <<>> =>
                   (presenceOp'.status = ValidationError /\ presence' = presence)
             /\ (Kept(user) # <<>> /\ presence.err = "none") =>
                   /\ presenceOp'.status = "ok"
                   /\ \E e \in written :
                         {f \in Range(presence'.entries) : f.name # e.name}
                           = {f \in Range(presence.entries) : f.name # e.name}
             /\ presenceOp'.status # "ok" => presence' = presence]_vars

\* A heartbeat for the user "a! b" wrote a_b.json.
C29_Witness ==
    /\ presenceOp.op = "heartbeat"
    /\ presenceOp.status = "ok"
    /\ presenceOp.user = <<"a", "!", " ", "b">>
    /\ \E e \in Range(presence.entries) :
          /\ e.name = [stem |-> <<"a", "_", "b">>, ext |-> ".json"]
          /\ e.body.user = <<"a", "!", " ", "b">>

\* C32: a step that removes the lock file is taken by the process that
\* created the file or, when another process takes it, finds a file whose
\* expiresAt has passed: neither the removal inside the acquisition loop nor
\* the release after fn removes a file that another process created and
\* that has not expired.
C32_RemovedByOwnerOrExpired ==
    [][\A p \in Procs :
          (pc[p] \in {"unlink", "release"} /\ pc'[p] # pc[p] /\ lock.present) =>
              \/ lock.owner = p
              \/ (lock.written /\ lock.expiresAt <= now)]_vars

\* C37: while presence is unavailable no list with a user in it reaches
\* the view and no heartbeat call writes its file, calls that were in
\* flight when presence was switched off included.
C37_QuietWhileUnavailable ==
    [][(~presenceAvailable /\ ~presenceAvailable') =>
          /\ (viewUsers' # viewUsers => viewUsers' = <<>>)
          /\ (beatRun' < beatRun => presence' = presence)]_vars

\* The doScan passes in flight.
PassesInFlight == {k \in Passes : npc[k] # "idle"}

\* C38: with the room active and loaded (markRoomRead has run at the end
\* of its load) and includeActiveRoom false, the unread count of the room
\* is zero, whatever scan was in flight when it was marked read.
C38_ActiveRoomStaysRead ==
    (~includeActiveRoom /\ activeRoom = 1 /\ ipc = "idle" /\ switches > 0) =>
        unreadCounts[1] = 0

\* C39: at most one doScan pass is in flight; a call of scan() that finds a
\* pass running starts none and joins it; no pass starts once disposed.
C39_OneScanInFlight ==
    /\ [](Cardinality(PassesInFlight) <= 1)
    /\ [][(\E k \in Passes : npc[k] = "idle" /\ npc'[k] # "idle") =>
             (PassesInFlight = {} /\ ~disposed /\ scanRequest' = "started")]_vars
    /\ [][(scanRequest' # scanRequest /\ PassesInFlight # {}) =>
             (scanRequest' = "joined" /\ npc' = npc)]_vars

\* The interval fired while a pass was reading the room: the call joined
\* the pass that is still the only one.
C39_Witness ==
    /\ scanRequest = "joined"
    /\ Cardinality(PassesInFlight) = 1
    /\ \E k \in Passes : npc[k] = "list"
    /\ scanPromise
    /\ noteTimer

\* C10: every acquisition that has started its create / read / delete loop
\* leaves it: it enters fn or fails with LockUnavailableError.
C10_AcquisitionEnds ==
    \A p \in Procs : (pc[p] = "create") ~> (pc[p] \in {"fn", "failed", "dead"})

\* The poll timer keeps firing and every call the reader started completes.
ReaderStep(s) ==
    \/ PollTick(s)
    \/ ListSince(s)
    \/ ReadMessage(s)
    \/ Emit(s)
    \/ UpdateCursor(s)

FairSpoolSpec == SpoolSpec /\ \A s \in Slots : WF_vars(ReaderStep(s))

FinalNames == {FileNameOf(t, id) : t \in Times, id \in Ids}

\* A spool file under its final name holds message r.
Placed(r) == \E n \in FinalNames : n \in DOMAIN spool /\ spool[n] = r

\* C3: the reader never reads a listed name while its content is an
\* incomplete serialization.
C3_NoPartialRead == partialReads = {}

\* C4: every file a post placed under its final name is eventually handed
\* to the view, as long as the reader keeps polling.
C4_EventuallyDelivered ==
    \A n \in FinalNames :
        (n \in DOMAIN spool) ~> (n \in DOMAIN spool /\ spool[n] \in delivered)

\* C5: no post replaces a spool file: the message of every post that
\* returned is in the spool under a final name.
C5_NoOverwrite == \A r \in posted : Placed(r)

\* C13: of two posts of one writer that returned, the later one (the larger
\* serial number in text) created the strictly greater file name, also when
\* both read the same clock value.
C13_NamesStrictlyIncrease ==
    \A r1, r2 \in posted :
        (r1.from = r2.from /\ r1.text < r2.text) =>
            NameLess(FileNameOf(r1.ts, r1.id), FileNameOf(r2.ts, r2.id))

\* names holds, ascending, the limit largest file names of dir, or all of
\* them when there are fewer.
IsTail(names, dir, limit) ==
    /\ Range(names) \subseteq FileNames(dir)
    /\ Ascending(names)
    /\ Len(names) = IF Cardinality(FileNames(dir)) < limit
                    THEN Cardinality(FileNames(dir)) ELSE limit
    /\ \A n \in FileNames(dir) \ Range(names) :
          \A m \in Range(names) : NameLess(n, m)

\* Every message comes from a listed name, in the order of the names.
BuiltFrom(messages, names) ==
    /\ \A i \in 1..Len(messages) :
          \E j \in 1..Len(names) :
              names[j][1] = messages[i].ts /\ names[j][2] = messages[i].id
    /\ \A i \in 1..Len(messages) - 1 :
          ~NameLess(FileNameOf(messages[i + 1].ts, messages[i + 1].id),
                    FileNameOf(messages[i].ts, messages[i].id))

PollCycleFrame ==
    /\ [][\A s \in Slots :
             (rpc[s] = "idle" /\ rpc'[s] # "idle") =>
                 (ipc = "idle" /\ since'[s] = cursor /\ rpc'[s] = "list")]_vars
    /\ [][\A s \in Slots :
             (rpc[s] = "list" /\ rpc'[s] # "list") =>
                 LET after == {n \in FileNames(spool) : NameLess(since[s], n)} IN
                 /\ lastEvent' = lastEvent /\ cursor' = cursor
                 /\ IF after = {} THEN rpc'[s] = "idle"
                    ELSE rpc'[s] = "read" /\ Range(newer'[s]) = after]_vars
    /\ [][\A s \in Slots :
             (rpc[s] = "read" /\ (rpc'[s] # "read" \/ sidx'[s] # sidx[s])) =>
                 /\ rpc'[s] \in {"read", "emit"}
                 /\ lastEvent' = lastEvent /\ cursor' = cursor]_vars
    /\ [](\A s \in Slots : rpc[s] \in {"read", "emit"} => BuiltFrom(msgs[s], newer[s]))
    /\ [][\A s \in Slots :
             (rpc[s] = "update" /\ rpc'[s] # "update") =>
                 /\ rpc'[s] = "idle"
                 /\ lastEvent' = lastEvent
                 /\ cursor' = newer[s][Len(newer[s])]]_vars

SkipsOnlyUnreadable ==
    /\ [][\A s \in Calls :
             (rpc[s] = "read" /\ <<sidx[s], rpc[s]>> # <<sidx'[s], rpc'[s]>>) =>
                 LET name == newer[s][sidx[s]] IN
                 /\ rpc'[s] \in {"read", "emit"}
                 /\ IF name \in DOMAIN spool /\ spool[name].kind = "msg"
                    THEN msgs'[s] = Append(msgs[s], spool[name])
                    ELSE msgs'[s] = msgs[s] /\ name \in skippedNames']_vars
    /\ [](\A s \in Calls : rpc[s] = "emit" => BuiltFrom(msgs[s], newer[s]))
    /\ [][\A s \in Calls :
             (rpc[s] = "update" /\ rpc'[s] # "update") =>
                 cursor' = newer[s][Len(newer[s])]]_vars

\* C21: a poll cycle skips only the listed files it cannot read or parse,
\* delivers the other records of the batch in order and moves the cursor to
\* the last listed name; and no later cycle lists a name that a cycle had to
\* skip.
C21_UnreadableSkippedOnce ==
    /\ SkipsOnlyUnreadable
    /\ [][\A s \in Calls :
             (rpc[s] = "list" /\ rpc'[s] = "read") =>
                 Range(newer'[s]) \cap skippedNames = {}]_vars

\* The loadIncremental calls for the room that have started and not returned.
InFlight == {s \in Calls : rpc[s] # "idle"}

\* C22: at most one loadIncremental call for the room is in flight at any
\* time; a timer tick or a forced poll that finds one unfinished starts
\* nothing.
C22_OnePollInFlight ==
    /\ [](Cardinality(InFlight) <= 1)
    /\ [][InFlight # {} => InFlight' \subseteq InFlight]_vars

\* C23: a loadIncremental or loadInitialTimeline call that is still in
\* flight when the active room changes may finish, but its result is dropped:
\* every reset or append event that reaches the view carries records of the
\* room that is active at that moment, and once no call is in flight the view
\* shows the active room.
C23_OldRoomResultDiscarded ==
    /\ [][(lastEvent' # lastEvent /\ Len(lastEvent'.msgs) > 0)
             => lastEvent'.room = activeRoom']_vars
    /\ []((InFlight = {} /\ ipc = "idle" /\ lastEvent # NoEvent)
             => lastEvent.room = activeRoom)

\* C24: while the room stays active its cursor only moves forward, whatever
\* the interleaving of the poll calls, and no name listed on the way to it is
\* larger than it.
C24_CursorNeverMovesBack ==
    /\ [][(activeRoom = 1 /\ activeRoom' = 1 /\ cursor' # cursor)
             => NameLess(cursor, cursor')]_vars
    /\ [](activeRoom = 1 => \A n \in cursorChain : ~NameLess(cursor, n))

\* C30: a postMessage call whose text is empty after trimming, or whose
\* sender name is empty, ends with the validation error and has touched
\* nothing: no file of the spool is created or changed, no write is begun
\* and no record is returned, then or later; any other call begins its
\* write.
C30_InvalidPostTouchesNothing ==
    /\ [][posts' # posts =>
             LET call == postCall'
                 invalid == Len(trim(call.text)) = 0 \/ Len(call.from) = 0
             IN /\ invalid =>
                      /\ call.status \in {EmptyText, EmptySender}
                      /\ spool' = spool /\ posted' = posted
                      /\ wpc' = wpc /\ wname' = wname /\ wrec' = wrec
                /\ call.status = "ok" => wpc'[call.writer] = "openTmp"]_vars
    /\ [][(spool' # spool \/ posted' # posted) =>
             \E w \in Writers : wpc[w] # "idle"]_vars

\* A call with a blank text was rejected while the spool held files.
C30_Witness ==
    /\ postCall.status = EmptyText
    /\ postCall.text = <<" ", " ">>
    /\ posts = 1
    /\ posted = {}
    /\ spool = initial
    /\ Cardinality(DOMAIN spool) > 1

\* C31: listTail returns the empty list for a limit of zero or less, and
\* otherwise the limit largest names among the files of the directory, all
\* of them when there are fewer, in ascending order; no subdirectory is
\* among them.
C31_ListTailLargestAscending ==
    tailCall.done =>
        IF tailCall.limit <= 0 THEN tailCall.files = <<>>
        ELSE IsTail(tailCall.files, spool, tailCall.limit)

\* A call with limit 2 on a directory of more than two files and two
\* subdirectories.
C31_Witness ==
    /\ tailCall.done
    /\ tailCall.limit = 2
    /\ Cardinality(FileNames(spool)) > 2
    /\ <<1, 0>> \in DOMAIN spool
    /\ Len(tailCall.files) = 2

\* The temporary files of the posts in progress.
TmpInProgress ==
    {createTempName(wname[w], w) : w \in {x \in Writers : wpc[x] \in {"fillTmp", "rename"}}}

\* The file a processSpool step works on.
InHand(p) == files[p][idx[p]]

\* C33: posting during a compaction run of the same room is safe: no step
\* of processSpool reads, appends or deletes the temporary file of a post
\* in progress, the rename of every post finds its temporary file (the post
\* succeeds), and every record a post returned is in the spool or in a day
\* log.
C33_PostSafeDuringCompaction ==
    /\ [][\A p \in Procs :
             (pc[p] \in {"readFile", "append", "unlinkSpool"} /\ pc'[p] # pc[p]
                  /\ InHand(p) \in DOMAIN spool) =>
                 InHand(p) \notin TmpInProgress]_vars
    /\ [][\A w \in Writers :
             (wpc[w] = "rename" /\ wpc'[w] = "idle") =>
                 createTempName(wname[w], w) \in DOMAIN spool]_vars
    /\ [](\A m \in posted :
             \/ \E n \in DOMAIN spool : spool[n] = m
             \/ \E d \in DayKeys : m \in Range(logs[d]))

\* C34: a reset event never carries more than initialLoadLimit records,
\* the reset of the first poll cycle after a load that found the room empty
\* included.
C34_ResetWithinLoadLimit ==
    lastEvent.kind = "reset" => Len(lastEvent.msgs) <= initialLoadLimit

\* The records the view has rendered from a 'send' message.
RenderedOnSend ==
    {m \in posted : \A w \in Writers : ~(wpc[w] = "send" /\ wrec[w] = m)}

\* C35: a message the local user posted is shown once: after the view has
\* rendered the record returned by the post, no reset or append event of a
\* poll cycle carries that record again.
C35_SentRecordNotDeliveredAgain ==
    [][(lastEvent' # lastEvent /\ lastEvent'.kind \in {"reset", "append"}) =>
          Range(lastEvent'.msgs) \cap RenderedOnSend = {}]_vars

C6_ListSinceNoGapNoDuplicate ==
    [][\A s \in Slots :
          (rpc[s] = "list" /\ rpc'[s] # "list") =>
              LET result == IF rpc'[s] = "read" THEN newer'[s] ELSE <<>> IN
              /\ Range(result) = {n \in FileNames(spool) : NameLess(since[s], n)}
              /\ Ascending(result)
              /\ Range(result) \cap chain[s] = {}]_vars

C6_Witness ==
    \E s \in Slots :
        /\ rpc[s] = "read"
        /\ chain[s] # {}
        /\ Len(newer[s]) >= 1
        /\ \E n \in FileNames(spool) : ~NameLess(since[s], n)

====
